---- MODULE Spec2Model ----
(***************************************************************************)
(* Model of the BPMN-to-SOP generator (backend/bpmn_parser.py) and of the  *)
(* parts of backend/app.py that consume its output.                        *)
(*                                                                         *)
(* The entity tables of BPMNParser (tasks, gateways, flows, subprocesses,  *)
(* events) are the state; they are filled once, in Init, from a bounded    *)
(* family of BPMN graphs, and generate_sop_rows is applied to them.        *)
(* Step numbers are the integers the code obtains with int(); a missing    *)
(* step number (None) is NoNumber.  A missing documentation (None) and an  *)
(* empty one are both "" (the code only ever tests them for truthiness).   *)
(***************************************************************************)
EXTENDS Integers, Sequences, FiniteSets, TLC

VARIABLES tasks, gateways, flows, subprocesses, events, boundary_events, lane_raci,
          sop_rows, pc,
          sla_merges,
          \* backend/app.py: the last /generate request, the history of
          \* HistoryManager, the archive table, the document rendered last
          \* and the response sent last
          request, history, archives, document, response,
          \* the local "entry" of the latest HistoryManager.add_entry call
          entry,
          \* the invocations of parse_bpmn_to_sop in progress and the
          \* BPMNParser instances they have constructed
          calls,
          \* the graph traversal in progress
          walk

tables == <<tasks, gateways, flows, subprocesses, events, boundary_events, lane_raci>>

app_state == <<request, history, archives, document, response, entry, calls>>

vars == <<tables, sop_rows, pc, sla_merges, app_state, walk>>

(***************************************************************************)
(* Bounds of the model.                                                    *)
(***************************************************************************)
\* numbered tasks T1..T<MaxStep>, task Tk carrying step number k
MaxStep == 4
\* largest number of sequence flows in one diagram
MaxFlows == 4
\* largest number of sequence flows in one diagram of the join family
MaxJoinFlows == 5
\* largest number of task rows, and of case rows behind one task row, in a
\* step list handed to the SLA merge scan
MaxSlaTasks == 3
MaxCases == 2
\* largest number of /generate requests in one behaviour
MaxRequests == 2
\* largest number of nested calls of one graph traversal
MaxDepth == 6

NoNumber == 0 - 1

(***************************************************************************)
(* Generic helpers.                                                        *)
(***************************************************************************)
Range(s) == {s[i] : i \in DOMAIN s}

RECURSIVE SetToSeq(_)
\* the elements of a finite set of integers, ascending
SetToSeq(S) ==
    IF S = {} THEN <<>>
    ELSE LET m == CHOOSE x \in S : \A y \in S : x <= y
         IN <<m>> \o SetToSeq(S \ {m})

RECURSIVE SelectSeqIdx(_, _, _)
\* indices i >= from of s, ascending, with P(s[i]); used through Filter
SelectSeqIdx(s, from, keep) ==
    IF from > Len(s) THEN <<>>
    ELSE (IF from \in keep THEN <<s[from]>> ELSE <<>>) \o SelectSeqIdx(s, from + 1, keep)

\* list comprehension [x for x in s if P(x)]
Filter(s, P(_)) == SelectSeqIdx(s, 1, {i \in DOMAIN s : P(s[i])})

RECURSIVE Flatten(_)
Flatten(ss) == IF ss = <<>> THEN <<>> ELSE Head(ss) \o Flatten(Tail(ss))

\* tuple comparison of two sort keys (a, b)
KeyLess(k1, k2) == k1[1] < k2[1] \/ (k1[1] = k2[1] /\ k1[2] < k2[2])

RECURSIVE InsertByKey(_, _)
\* x inserted after every element whose sort_key is <= its own (stable)
InsertByKey(s, x) ==
    IF s = <<>> THEN <<x>>
    ELSE IF KeyLess(x.sort_key, Head(s).sort_key) THEN <<x>> \o s
         ELSE <<Head(s)>> \o InsertByKey(Tail(s), x)

RECURSIVE SortBySortKey(_)
\* list.sort(key=lambda x: x['sort_key']): Python's sort is stable
SortBySortKey(s) ==
    IF s = <<>> THEN <<>>
    ELSE InsertByKey(SortBySortKey(SubSeq(s, 1, Len(s) - 1)), s[Len(s)])

RECURSIVE InsertInt(_, _)
InsertInt(s, x) ==
    IF s = <<>> THEN <<x>>
    ELSE IF x < Head(s) THEN <<x>> \o s
         ELSE <<Head(s)>> \o InsertInt(Tail(s), x)

RECURSIVE SortedInts(_)
\* sorted(xs, key=int)
SortedInts(s) ==
    IF s = <<>> THEN <<>>
    ELSE InsertInt(SortedInts(SubSeq(s, 1, Len(s) - 1)), s[Len(s)])

\* sorted(set(xs), key=int)
SortedSet(s) == SetToSeq(Range(s))

RECURSIVE Join(_, _)
\* sep.join(str(x) for x in s), for a list of step numbers
Join(s, sep) ==
    IF s = <<>> THEN ""
    ELSE IF Len(s) = 1 THEN ToString(s[1])
         ELSE ToString(s[1]) \o sep \o Join(Tail(s), sep)

(***************************************************************************)
(* The bounded families of diagrams.  A diagram is a set of at most        *)
(* MaxFlows sequence flows taken from one family of FlowUniverse, plus the *)
(* type of gateway "A".  Element ids: tasks T1..T<MaxStep> (task Tk has    *)
(* step number k), "U" (no step number), "D" (a second task numbered 1),   *)
(* "V" (step number FarStep, in the diagrams of the start family only);    *)
(* T1..T3 are in every diagram, the other tasks when one of their flows    *)
(* is; gateways "X" (exclusive) and "A"; start events S1, S2; end events   *)
(* E1 ("Done") and E2 (unnamed); intermediate event "I"; subprocess "P".   *)
(* Tasks T1..T3 lie in lane L1 ("Ops"), the other tasks in no lane.  The   *)
(* diagrams carry no SLA and no shapes; task documentation and boundary    *)
(* events "B1", "B2" (attached to task T2) occur in the diagrams of the    *)
(* row family only.                                                        *)
(***************************************************************************)
T(k) == "T" \o ToString(k)

NumberedIds == {T(k) : k \in 1..MaxStep}

Fl(s, t, n, d) == [source |-> s, target |-> t, name |-> n, documentation |-> d]

\* the order in which gateway "X" lists its flows to tasks: 3, 4, .., 2, 1
XOrder(i) == IF i <= MaxStep - 2 THEN i + 2 ELSE MaxStep + 1 - i

XName(k) == IF k = 1 THEN "No" ELSE IF k = 2 THEN "Redo" ELSE IF k = 3 THEN "Yes" ELSE ""

XDoc(k) == IF k = 1 THEN "rejected" ELSE IF k = 3 THEN "approved" ELSE ""

ForwardFlows ==
    << Fl("S1", "T3", "", ""),      Fl("S1", "X", "", ""),
       Fl("S2", "T1", "", ""),      Fl("S2", "A", "", ""),
       Fl("T1", "X", "", ""),       Fl("T1", "A", "", ""),
       Fl("T1", "T3", "", ""),      Fl("T1", "T2", "", ""),
       Fl("T2", "I", "", ""),       Fl("T2", "X", "", ""),
       Fl("T2", "A", "", ""),       Fl("T2", "P", "", ""),
       Fl("T2", "E1", "", ""),      Fl("T2", "T3", "", ""),
       Fl("T2", "T1", "", ""),
       Fl("T3", "A", "", ""),       Fl("T3", "E2", "", ""),
       Fl(T(MaxStep), "T3", "", ""), Fl("D", "A", "", "") >>
    \o [i \in 1..MaxStep |-> Fl("X", T(XOrder(i)), XName(XOrder(i)), XDoc(XOrder(i)))]
    \o << Fl("X", "E1", "", "closed"),  Fl("X", "P", "Yes", "escalated"),
          Fl("X", "A", "", ""),         Fl("X", "I", "Later", ""),
          Fl("X", "U", "Skip", ""),
          Fl("A", "T2", "", ""),        Fl("A", "T3", "", ""),
          Fl("A", "E1", "", ""),
          Fl("P", "T2", "", ""),        Fl("P", "T3", "", ""),
          Fl("P", "E1", "", ""),
          Fl("I", "T3", "", ""),        Fl("I", "P", "", ""),
          Fl("I", "A", "", ""),         Fl("I", "E1", "", "") >>

\* flows that close cycles through gateways, events and the subprocess
BackFlows ==
    << Fl("A", "X", "", ""), Fl("I", "X", "", ""), Fl("P", "X", "", "") >>

\* the flows that leave the boundary events
BoundaryFlows ==
    << Fl("B1", "T1", "", ""), Fl("B1", "E1", "", ""), Fl("B1", "T3", "", ""),
       Fl("B2", "T3", "", "") >>

\* the flows that lead to task "V"
FarFlows == << Fl("S1", "V", "", ""), Fl("S2", "V", "", ""), Fl("X", "V", "", "") >>

FlowUniverse == ForwardFlows \o BackFlows \o BoundaryFlows \o FarFlows

FlowIds == DOMAIN ForwardFlows

Edge(f) == <<FlowUniverse[f].source, FlowUniverse[f].target>>

\* diagrams around an exclusive gateway that follows task T2
XorFamily ==
    {f \in FlowIds : \/ Edge(f) = <<"T2", "X">>
                     \/ FlowUniverse[f].source \in {"X", "A", "P", "I"}}

\* diagrams around the successors of task T2
RouteFamily ==
    {f \in FlowIds : \/ FlowUniverse[f].source \in {"T2", "A", "P", "I"}
                     \/ Edge(f) \in {<<"S2", "T1">>, <<"T1", "T2">>, <<"T1", "A">>,
                                     <<"T3", "A">>, <<"T3", "E2">>, <<"D", "A">>,
                                     <<"X", "T3">>, <<"X", "A">>}}

\* diagrams around the predecessors of task T3
InputFamily ==
    {f \in FlowIds : \/ FlowUniverse[f].source \in {"S1", "S2", "T1"}
                     \/ Edge(f) \in {<<"T2", "X">>, <<"T2", "A">>, <<"T2", "T3">>,
                                     <<"T2", "I">>, <<"I", "T3">>,
                                     <<T(MaxStep), "T3">>, <<"X", "T3">>, <<"X", "T1">>,
                                     <<"X", "A">>, <<"A", "T3">>, <<"D", "A">>}}

\* diagrams with cycles through the gateways, the intermediate event, the
\* subprocess and the tasks
TraceFamily ==
    {f \in DOMAIN FlowUniverse :
        Edge(f) \in {<<"X", "A">>, <<"A", "X">>, <<"X", "I">>, <<"I", "X">>,
                     <<"X", "P">>, <<"P", "X">>, <<"T1", "T2">>, <<"T2", "T1">>,
                     <<"T1", "X">>, <<"X", "T3">>, <<"S1", "X">>}}

RECURSIVE SubsetsUpTo(_, _)
\* the subsets of the set F with at most k elements
SubsetsUpTo(F, k) ==
    IF F = {} \/ k = 0 THEN {{}}
    ELSE LET n == CHOOSE x \in F : \A y \in F : y <= x
         IN SubsetsUpTo(F \ {n}, k) \cup {S \cup {n} : S \in SubsetsUpTo(F \ {n}, k - 1)}

Diagrams(F) == SubsetsUpTo(F, MaxFlows)

\* diagrams around a join gateway "A" that leads to an end event
JoinFamily ==
    {f \in FlowIds : Edge(f) \in {<<"T1", "A">>, <<"T2", "A">>, <<"T3", "A">>, <<"D", "A">>,
                                  <<"T2", "X">>, <<"X", "A">>, <<"X", "T3">>,
                                  <<"T2", "I">>, <<"T2", "E1">>,
                                  <<"A", "E1">>, <<"A", "T3">>, <<"A", "T2">>}}

\* <bpmn:incoming>/<bpmn:outgoing> children of an element, in document order
IncomingOf(fs, id) == SetToSeq({f \in DOMAIN fs : fs[f].target = id})
OutgoingOf(fs, id) == SetToSeq({f \in DOMAIN fs : fs[f].source = id})

\* tasks T1..T3 belong to every diagram, the other tasks to the diagrams
\* that have a flow from or to them
TaskIdsOf(fs) ==
    {"T1", "T2", "T3"}
    \cup {id \in NumberedIds \cup {"D", "U", "V"} :
             \E f \in DOMAIN fs : fs[f].source = id \/ fs[f].target = id}

\* the step number of task "V": _extract_step_number takes any run of digits
FarStep == 10000

TaskNumber(id) ==
    IF id = "U" THEN NoNumber
    ELSE IF id = "D" THEN 1
    ELSE IF id = "V" THEN FarStep
    ELSE CHOOSE k \in 1..MaxStep : T(k) = id

\* document order of the task elements
TaskOrder == [k \in 1..MaxStep |-> T(k)] \o <<"D", "U", "V">>

\* document order of the event elements
EventOrder == <<"S1", "S2", "E1", "E2", "I">>

EventType(id) == IF id \in {"S1", "S2"} THEN "start"
                 ELSE IF id \in {"E1", "E2"} THEN "end" ELSE "intermediate"

EventName(id) == IF id = "S1" THEN "Request" ELSE IF id = "S2" THEN "Call"
                 ELSE IF id = "E1" THEN "Done" ELSE IF id = "I" THEN "Reply" ELSE ""

NoLane == "[LANE UNREADABLE]"

NoRaci == [responsible |-> "N/A", accountable |-> "N/A",
           consulted |-> "N/A", informed |-> "N/A"]

(***************************************************************************)
(* BPMNParser.__init__ / _parse_structure: the entity tables of a diagram. *)
(***************************************************************************)
\* fs: the flows as the elements list them in their <bpmn:incoming> and
\* <bpmn:outgoing> children; table_ids: the ids of the <bpmn:sequenceFlow>
\* elements of the document
\* docs: the documentation of task T2, as the lines of the stripped text
\* (<<>> when the task has none); attached: the boundary events attached to
\* task T2, in document order
parse_document(fs, table_ids, atype, docs, attached) ==
       /\ tasks = [id \in TaskIdsOf(fs) |->
                  [number |-> TaskNumber(id),
                   label |-> IF id = "U" THEN "Review" ELSE "Check " \o id,
                   lane |-> IF id \in {"T1", "T2", "T3"} THEN "Ops" ELSE NoLane,
                   lane_id |-> IF id \in {"T1", "T2", "T3"} THEN "L1" ELSE "",
                   documentation |-> IF id = "T2" THEN docs ELSE <<>>,
                   incoming |-> IncomingOf(fs, id),
                   outgoing |-> OutgoingOf(fs, id)]]
       /\ gateways = [id \in {"X", "A"} |->
                  [type |-> IF id = "X" THEN "XOR" ELSE atype,
                   incoming |-> IncomingOf(fs, id),
                   outgoing |-> OutgoingOf(fs, id)]]
       /\ flows = [f \in table_ids |-> fs[f]]
       /\ subprocesses = [id \in {"P"} |->
                  [name |-> "Billing",
                   incoming |-> IncomingOf(fs, id),
                   outgoing |-> OutgoingOf(fs, id)]]
       /\ events = [id \in Range(EventOrder) |->
                  [name |-> EventName(id),
                   type |-> EventType(id),
                   incoming |-> IncomingOf(fs, id),
                   outgoing |-> OutgoingOf(fs, id)]]
       /\ boundary_events =
              [id \in (IF attached = <<>> THEN {} ELSE {"T2"}) |->
                  [i \in DOMAIN attached |->
                      [id |-> attached[i].id,
                       name |-> attached[i].name,
                       interrupting |-> attached[i].interrupting,
                       event_type |-> attached[i].event_type,
                       outgoing |-> OutgoingOf(fs, attached[i].id)]]]
       /\ lane_raci = [id \in {"L1"} |->
                  [responsible |-> "Ops", accountable |-> "Head of Ops",
                   consulted |-> "N/A", informed |-> "N/A"]]

\* a document without task documentation and without boundary events
parse_elements(fs, table_ids, atype) == parse_document(fs, table_ids, atype, <<>>, <<>>)

\* a document whose elements list exactly the sequence flows it contains
parse_structure(fs0, atype) ==
    parse_elements([f \in fs0 |-> FlowUniverse[f]], fs0, atype)

(***************************************************************************)
(* _get_target_step_numbers: the resolved targets of an element's outgoing *)
(* flows, as (target_type, target_step_or_name, flow_name).                *)
(***************************************************************************)
Tgt(ty, v, n) == [type |-> ty, value |-> v, flow_name |-> n]

\* TargetOfFlow, a flow to an unknown element taken for a flow to an unnamed
\* end event
TargetOfFlow_UnknownEnds(flow_id) ==
    IF flow_id \notin DOMAIN flows THEN <<>>
    ELSE LET flow == flows[flow_id]
             target_id == flow.target
         IN IF target_id \in DOMAIN tasks
            THEN (IF tasks[target_id].number # NoNumber
                  THEN <<Tgt("task", tasks[target_id].number, flow.name)>>
                  ELSE <<>>)
            ELSE IF target_id \in DOMAIN gateways
            THEN <<Tgt("gateway", target_id, flow.name)>>
            ELSE IF target_id \in DOMAIN subprocesses
            THEN <<Tgt("subprocess", target_id, flow.name)>>
            ELSE IF target_id \in DOMAIN events
            THEN (IF events[target_id].type = "end"
                  THEN <<Tgt("end",
                             IF events[target_id].name # "" THEN events[target_id].name
                             ELSE "Process Complete",
                             flow.name)>>
                  ELSE IF events[target_id].type = "intermediate"
                  THEN <<Tgt("intermediate", target_id, flow.name)>>
                  ELSE <<>>)
            ELSE <<Tgt("end", "Process Complete", flow.name)>>

TargetOfFlow(flow_id) ==
    IF flow_id \notin DOMAIN flows THEN <<>>
    ELSE LET flow == flows[flow_id]
             target_id == flow.target
         IN IF target_id \in DOMAIN tasks
            THEN (IF tasks[target_id].number # NoNumber
                  THEN <<Tgt("task", tasks[target_id].number, flow.name)>>
                  ELSE <<>>)
            ELSE IF target_id \in DOMAIN gateways
            THEN <<Tgt("gateway", target_id, flow.name)>>
            ELSE IF target_id \in DOMAIN subprocesses
            THEN <<Tgt("subprocess", target_id, flow.name)>>
            ELSE IF target_id \in DOMAIN events
            THEN (IF events[target_id].type = "end"
                  THEN <<Tgt("end",
                             IF events[target_id].name # "" THEN events[target_id].name
                             ELSE "Process Complete",
                             flow.name)>>
                  ELSE IF events[target_id].type = "intermediate"
                  THEN <<Tgt("intermediate", target_id, flow.name)>>
                  ELSE <<>>)
            ELSE <<>>

OutgoingFlowIds(element_id) ==
    IF element_id \in DOMAIN tasks THEN tasks[element_id].outgoing
    ELSE IF element_id \in DOMAIN gateways THEN gateways[element_id].outgoing
    ELSE IF element_id \in DOMAIN subprocesses THEN subprocesses[element_id].outgoing
    ELSE IF element_id \in DOMAIN events THEN events[element_id].outgoing
    ELSE <<>>

get_target_step_numbers(element_id) ==
    LET flow_ids == OutgoingFlowIds(element_id)
    IN Flatten([i \in DOMAIN flow_ids |-> TargetOfFlow(flow_ids[i])])

(***************************************************************************)
(* _find_first_task_from_element: forward search through gateways and      *)
(* events for the first numbered task.  The visited set is the one mutable *)
(* set shared by the whole search, so it is returned with the result.      *)
(***************************************************************************)
Res(r, v) == [result |-> r, visited |-> v]

RECURSIVE find_first_task_from_element(_, _)
RECURSIVE FindFirstLoop(_, _, _)

FindFirstLoop(outgoing_flows, i, visited) ==
    IF i > Len(outgoing_flows) THEN Res(NoNumber, visited)
    ELSE IF outgoing_flows[i] \notin DOMAIN flows
    THEN FindFirstLoop(outgoing_flows, i + 1, visited)
    ELSE LET target_id == flows[outgoing_flows[i]].target
         IN IF target_id \in DOMAIN tasks /\ tasks[target_id].number # NoNumber
            THEN Res(tasks[target_id].number, visited)
            ELSE IF target_id \in DOMAIN gateways \/ target_id \in DOMAIN events
            THEN LET r == find_first_task_from_element(target_id, visited)
                 IN IF r.result # NoNumber THEN r
                    ELSE FindFirstLoop(outgoing_flows, i + 1, r.visited)
            ELSE FindFirstLoop(outgoing_flows, i + 1, visited)

find_first_task_from_element(element_id, visited) ==
    IF element_id \in visited THEN Res(NoNumber, visited)
    ELSE LET outgoing_flows ==
                 IF element_id \in DOMAIN events THEN events[element_id].outgoing
                 ELSE IF element_id \in DOMAIN gateways THEN gateways[element_id].outgoing
                 ELSE <<>>
         IN FindFirstLoop(outgoing_flows, 1, visited \cup {element_id})

(***************************************************************************)
(* _get_start_event_numbers: start event id -> input number.               *)
(***************************************************************************)
NoTaskStep == 9999

StartEventsWithStep ==
    LET starts == Filter(EventOrder, LAMBDA e : e \in DOMAIN events /\ events[e].type = "start")
    IN [i \in DOMAIN starts |->
          LET first_step == find_first_task_from_element(starts[i], {}).result
          IN [event_id |-> starts[i],
              sort_key |-> <<IF first_step # NoNumber THEN first_step ELSE NoTaskStep, 0>>]]

\* the start events numbered in parse order, the sort of line 311 left out
get_start_event_numbers_Unsorted ==
    LET sorted == StartEventsWithStep
    IN [e \in {sorted[i].event_id : i \in DOMAIN sorted} |->
          CHOOSE n \in DOMAIN sorted : sorted[n].event_id = e]

get_start_event_numbers ==
    LET sorted == SortBySortKey(StartEventsWithStep)
    IN [e \in {sorted[i].event_id : i \in DOMAIN sorted} |->
          CHOOSE n \in DOMAIN sorted : sorted[n].event_id = e]

(***************************************************************************)
(* _trace_gateway_to_task: backward search through gateways for the first  *)
(* numbered task feeding a gateway.                                        *)
(***************************************************************************)
RECURSIVE trace_gateway_to_task(_, _)
RECURSIVE TraceGatewayLoop(_, _, _)

TraceGatewayLoop(incoming_flows, i, visited) ==
    IF i > Len(incoming_flows) THEN Res(NoNumber, visited)
    ELSE IF incoming_flows[i] \notin DOMAIN flows
    THEN TraceGatewayLoop(incoming_flows, i + 1, visited)
    ELSE LET source_id == flows[incoming_flows[i]].source
         IN IF source_id \in DOMAIN tasks /\ tasks[source_id].number # NoNumber
            THEN Res(tasks[source_id].number, visited)
            ELSE IF source_id \in DOMAIN gateways
            THEN LET r == trace_gateway_to_task(source_id, visited)
                 IN IF r.result # NoNumber THEN r
                    ELSE TraceGatewayLoop(incoming_flows, i + 1, r.visited)
            ELSE TraceGatewayLoop(incoming_flows, i + 1, visited)

trace_gateway_to_task(gateway_id, visited) ==
    IF gateway_id \in visited THEN Res(NoNumber, visited)
    ELSE IF gateway_id \notin DOMAIN gateways THEN Res(NoNumber, visited \cup {gateway_id})
    ELSE TraceGatewayLoop(gateways[gateway_id].incoming, 1, visited \cup {gateway_id})

(***************************************************************************)
(* _trace_back_to_split_gateway: follow single incoming flows backwards to *)
(* the split (1 incoming, several outgoing) a path originates from.        *)
(***************************************************************************)
NoSplit == [found |-> FALSE, id |-> "", type |-> ""]

RECURSIVE trace_back_to_split_gateway(_, _)
trace_back_to_split_gateway(element_id, visited) ==
    IF element_id \in visited THEN NoSplit
    ELSE IF element_id \in DOMAIN gateways
            /\ Len(gateways[element_id].incoming) = 1
            /\ Len(gateways[element_id].outgoing) > 1
    THEN [found |-> TRUE, id |-> element_id, type |-> gateways[element_id].type]
    ELSE IF element_id \notin DOMAIN gateways /\ element_id \notin DOMAIN tasks
    THEN NoSplit
    ELSE LET incoming_flows == IF element_id \in DOMAIN gateways
                               THEN gateways[element_id].incoming
                               ELSE tasks[element_id].incoming
         IN IF Len(incoming_flows) # 1 THEN NoSplit
            ELSE IF incoming_flows[1] \notin DOMAIN flows THEN NoSplit
            ELSE trace_back_to_split_gateway(flows[incoming_flows[1]].source,
                                             visited \cup {element_id})

(***************************************************************************)
(* _detect_step_trigger_input: "Step Input: Step A or Input B" when both a *)
(* forward predecessor step and a start event reach the task.              *)
(***************************************************************************)
Acc(v, st, tr) == [visited |-> v, step_sources |-> st, trigger_sources |-> tr]

\* a source step counted whatever its number
IsForwardSource_Any(source_step_num, current_task_num) == TRUE

\* line 717: only a step before the current one is a step source
IsForwardSource(source_step_num, current_task_num) == source_step_num < current_task_num

RECURSIVE trace_source(_, _, _, _)
RECURSIVE TraceSourceLoop(_, _, _, _, _)

\* for flow_id in incoming: if flow_id in self.flows: trace_source(source, visited)
TraceSourceLoop(incoming, i, acc, current_task_num, start_event_numbers) ==
    IF i > Len(incoming) THEN acc
    ELSE TraceSourceLoop(incoming, i + 1,
             IF incoming[i] \in DOMAIN flows
             THEN trace_source(flows[incoming[i]].source, acc,
                               current_task_num, start_event_numbers)
             ELSE acc,
             current_task_num, start_event_numbers)

trace_source(element_id, acc, current_task_num, start_event_numbers) ==
    IF element_id \in acc.visited THEN acc
    ELSE LET a1 == [acc EXCEPT !.visited = @ \cup {element_id}]
         IN IF element_id \in DOMAIN tasks
            THEN (IF tasks[element_id].number # NoNumber
                     /\ IsForwardSource(tasks[element_id].number, current_task_num)
                  THEN [a1 EXCEPT !.step_sources = @ \cup {tasks[element_id].number}]
                  ELSE a1)
            ELSE IF element_id \in DOMAIN events
            THEN (IF events[element_id].type = "start"
                  THEN (IF element_id \in DOMAIN start_event_numbers
                        THEN [a1 EXCEPT !.trigger_sources =
                                           @ \cup {start_event_numbers[element_id]}]
                        ELSE a1)
                  ELSE TraceSourceLoop(events[element_id].incoming, 1, a1,
                                       current_task_num, start_event_numbers))
            ELSE IF element_id \in DOMAIN gateways
            THEN TraceSourceLoop(gateways[element_id].incoming, 1, a1,
                                 current_task_num, start_event_numbers)
            ELSE IF element_id \in DOMAIN subprocesses
            THEN TraceSourceLoop(subprocesses[element_id].incoming, 1, a1,
                                 current_task_num, start_event_numbers)
            ELSE a1

RECURSIVE StepTriggerLoop(_, _, _, _, _)
\* every incoming flow of the task is traced with a fresh visited set
StepTriggerLoop(incoming, i, acc, current_task_num, start_event_numbers) ==
    IF i > Len(incoming) THEN acc
    ELSE StepTriggerLoop(incoming, i + 1,
             IF incoming[i] \in DOMAIN flows
             THEN trace_source(flows[incoming[i]].source, [acc EXCEPT !.visited = {}],
                               current_task_num, start_event_numbers)
             ELSE acc,
             current_task_num, start_event_numbers)

RECURSIVE JoinInputs(_)
JoinInputs(s) ==
    IF s = <<>> THEN ""
    ELSE " or Input " \o ToString(Head(s)) \o JoinInputs(Tail(s))

StepTriggerSources(task_id) ==
    StepTriggerLoop(tasks[task_id].incoming, 1, Acc({}, {}, {}),
                    tasks[task_id].number, get_start_event_numbers)

\* lines 751-762: the text for the step and trigger sources found
StepTriggerText(step_sources, trigger_sources) ==
    IF step_sources # {} /\ trigger_sources # {}
    THEN "Step Input: Step " \o Join(SetToSeq(step_sources), " or Step ")
         \o JoinInputs(SetToSeq(trigger_sources))
    ELSE ""

SourcesText(acc) == StepTriggerText(acc.step_sources, acc.trigger_sources)

detect_step_trigger_input(task_id) ==
    IF task_id \notin DOMAIN tasks THEN ""
    ELSE IF Len(tasks[task_id].incoming) = 0 THEN ""
    ELSE IF tasks[task_id].number = NoNumber THEN ""
    ELSE SourcesText(StepTriggerSources(task_id))

(***************************************************************************)
(* _detect_multi_input: the "Step Input: ..." suffix of a task title.      *)
(***************************************************************************)
\* the incoming flows of the task that are in the flow table
KnownIncoming(task_id) == Filter(tasks[task_id].incoming, LAMBDA f : f \in DOMAIN flows)

\* (flow_id, source_id, type) of the direct AND/OR gateway sources
parallel_or_inclusive_sources(task_id) ==
    Filter(KnownIncoming(task_id),
           LAMBDA f : /\ flows[f].source \in DOMAIN gateways
                      /\ gateways[flows[f].source].type \in {"AND", "OR"})

\* the step numbers collected in front of one AND/OR gateway
GatewaySourceSteps(gateway_id) ==
    LET gateway_incoming == gateways[gateway_id].incoming
    IN Flatten([i \in DOMAIN gateway_incoming |->
          IF gateway_incoming[i] \notin DOMAIN flows THEN <<>>
          ELSE LET gw_source_id == flows[gateway_incoming[i]].source
               IN IF gw_source_id \in DOMAIN tasks /\ tasks[gw_source_id].number # NoNumber
                  THEN <<tasks[gw_source_id].number>>
                  ELSE IF gw_source_id \in DOMAIN gateways
                  THEN LET task_step == trace_gateway_to_task(gw_source_id, {}).result
                       IN IF task_step # NoNumber THEN <<task_step>> ELSE <<>>
                  ELSE <<>>])

\* join_type after the loop: the type of the last AND/OR source
JoinTypeOf(srcs) ==
    IF srcs # <<>> /\ gateways[flows[srcs[Len(srcs)]].source].type = "OR" THEN "or" ELSE "and"

StepInputText(source_steps, join_type) ==
    "Step Input: Step "
    \o Join(SortedSet(source_steps),
            IF join_type = "or" THEN " and/or Step " ELSE " and Step ")

\* lines 534-566: an AND/OR gateway is a direct source
\* step_trigger is the value of _detect_step_trigger_input(task_id)
JoinBranch(task_id, step_trigger) ==
    LET srcs == parallel_or_inclusive_sources(task_id)
        source_steps == Flatten([i \in DOMAIN srcs |->
                                    GatewaySourceSteps(flows[srcs[i]].source)])
    IN IF Len(source_steps) > 1
       THEN StepInputText(source_steps, JoinTypeOf(srcs))
       ELSE step_trigger

\* lines 573-597: split_gateways, one entry per known incoming flow
split_gateways(task_id) ==
    LET inc == KnownIncoming(task_id)
    IN [i \in DOMAIN inc |->
          LET source_id == flows[inc[i]].source
          IN IF source_id \in DOMAIN tasks \/ source_id \in DOMAIN gateways
             THEN trace_back_to_split_gateway(source_id, {})
             ELSE NoSplit]

\* the exclusive sources overlooked
has_xor_source_Never(task_id) == FALSE

has_xor_source(task_id) ==
    LET inc == KnownIncoming(task_id)
        sg == split_gateways(task_id)
    IN \E i \in DOMAIN inc :
          \/ /\ flows[inc[i]].source \in DOMAIN gateways
             /\ gateways[flows[inc[i]].source].type = "XOR"
          \/ sg[i].found /\ sg[i].type = "XOR"

\* lines 622-648: the direct sources, and the tasks in front of a source gateway
DirectSourceSteps(task_id) ==
    LET inc == KnownIncoming(task_id)
    IN Flatten([i \in DOMAIN inc |->
          LET source_id == flows[inc[i]].source
          IN IF source_id \in DOMAIN tasks /\ tasks[source_id].number # NoNumber
             THEN <<tasks[source_id].number>>
             ELSE IF source_id \in DOMAIN gateways
             THEN LET gi == gateways[source_id].incoming
                  IN Flatten([j \in DOMAIN gi |->
                        IF gi[j] \in DOMAIN flows
                           /\ flows[gi[j]].source \in DOMAIN tasks
                           /\ tasks[flows[gi[j]].source].number # NoNumber
                        THEN <<tasks[flows[gi[j]].source].number>>
                        ELSE <<>>])
             ELSE <<>>])

DirectJoinType(task_id) ==
    LET gws == Filter(KnownIncoming(task_id),
                      LAMBDA f : /\ flows[f].source \in DOMAIN gateways
                                 /\ gateways[flows[f].source].type \in {"AND", "OR"}
                                 /\ ~(/\ flows[f].source \in DOMAIN tasks
                                      /\ tasks[flows[f].source].number # NoNumber))
    IN JoinTypeOf(gws)

\* lines 606-619: every incoming flow traces back to an exclusive split
AllFromXorSplits(task_id, sg) ==
    /\ Len(sg) = Len(tasks[task_id].incoming)
    /\ Len(sg) > 0
    /\ \A i \in DOMAIN sg : sg[i].found /\ sg[i].type = "XOR"

\* lines 621-654: the text for the direct sources, when there are several
DirectSourcesText(task_id, source_steps, step_trigger) ==
    IF Len(source_steps) > 1
    THEN StepInputText(source_steps, DirectJoinType(task_id))
    ELSE step_trigger

\* _detect_multi_input, step_trigger being the value of every
\* "return self._detect_step_trigger_input(task_id)" in it
MultiInputText(task_id, step_trigger) ==
    IF task_id \notin DOMAIN tasks THEN ""
    ELSE IF Len(tasks[task_id].incoming) = 0 THEN ""
    ELSE IF parallel_or_inclusive_sources(task_id) # <<>>
    THEN JoinBranch(task_id, step_trigger)
    ELSE IF has_xor_source(task_id) THEN step_trigger
    ELSE IF AllFromXorSplits(task_id, split_gateways(task_id)) THEN step_trigger
    ELSE DirectSourcesText(task_id, DirectSourceSteps(task_id), step_trigger)

detect_multi_input(task_id) ==
    MultiInputText(task_id, detect_step_trigger_input(task_id))

(***************************************************************************)
(* _check_intermediate_event: the name of an intermediate event directly   *)
(* in front of the task ("" when there is none).                           *)
(***************************************************************************)
check_intermediate_event(task_id) ==
    IF task_id \notin DOMAIN tasks THEN ""
    ELSE LET named == Filter(tasks[task_id].incoming,
                 LAMBDA f : /\ f \in DOMAIN flows
                            /\ flows[f].source \in DOMAIN events
                            /\ events[flows[f].source].type = "intermediate"
                            /\ events[flows[f].source].name # "")
         IN IF named = <<>> THEN "" ELSE events[flows[named[1]].source].name

(***************************************************************************)
(* _check_task_intermediate_chain: the composite "Wait for E ..." sentence *)
(* of a task whose first target is an intermediate event ("" for None).    *)
(***************************************************************************)
\* event_name.lower().startswith('wait for ') or ...startswith('wait until ')
StartsWithWait(event_name) == event_name \in {"Wait for reply", "wait until paid"}

\* subprocess_name.lower().endswith("process")
EndsWithProcess(subprocess_name) == subprocess_name \in {"Billing Process", "Audit process"}

process_suffix(subprocess_name) == IF EndsWithProcess(subprocess_name) THEN "" ELSE " Process"

\* "Revert" iff int(next_step) <= int(current_step_num)
\* routing_verb, a continuation to the current step itself taken for a proceed
routing_verb_Strict(next_step, current_step_num) ==
    IF next_step < current_step_num THEN "Revert" ELSE "Proceed"

routing_verb(next_step, current_step_num) ==
    IF next_step <= current_step_num THEN "Revert" ELSE "Proceed"

TaskValues(targets) ==
    LET ts == Filter(targets, LAMBDA t : t.type = "task")
    IN [i \in DOMAIN ts |-> ts[i].value]

ChainThroughGateway(wait, gateway_id, current_step_num) ==
    LET gateway == gateways[gateway_id]
        gateway_targets == get_target_step_numbers(gateway_id)
        task_targets == SortedInts(TaskValues(gateway_targets))
        first == Filter(gateway_targets, LAMBDA t : t.type \in {"task", "end"})
    IN IF gateway.type \in {"AND", "OR"} /\ Len(gateway.outgoing) > 1 /\ task_targets # <<>>
       THEN wait \o " and Then Proceed to Step "
            \o Join(task_targets, IF gateway.type = "OR" THEN " and/or Step " ELSE " and Step ")
       ELSE IF first = <<>> THEN wait
       ELSE IF first[1].type = "task"
       THEN wait \o " and Then " \o routing_verb(first[1].value, current_step_num)
            \o " to Step " \o ToString(first[1].value)
       ELSE wait \o ", then Process Ends (" \o first[1].value \o ")"

ChainThroughSubprocess(wait, subprocess_id, current_step_num) ==
    LET subprocess_name == subprocesses[subprocess_id].name
        start == wait \o " and Then Start " \o subprocess_name \o process_suffix(subprocess_name)
        subprocess_targets == get_target_step_numbers(subprocess_id)
    IN IF subprocess_targets # <<>> /\ subprocess_targets[1].type = "task"
       THEN start \o " Then " \o routing_verb(subprocess_targets[1].value, current_step_num)
            \o " to Step " \o ToString(subprocess_targets[1].value)
       ELSE IF subprocess_targets # <<>> /\ subprocess_targets[1].type = "end"
       THEN start \o ", then Process Ends (" \o subprocess_targets[1].value \o ")"
       ELSE start

check_task_intermediate_chain(task_id, current_step_num) ==
    LET targets == get_target_step_numbers(task_id)
    IN IF targets = <<>> THEN ""
       ELSE IF targets[1].type # "intermediate" THEN ""
       ELSE LET event_id == targets[1].value
                event_name == events[event_id].name
                wait == (IF StartsWithWait(event_name) THEN "" ELSE "Wait for ") \o event_name
                event_targets == get_target_step_numbers(event_id)
            IN IF event_targets = <<>> THEN wait
               ELSE IF event_targets[1].type = "subprocess"
               THEN ChainThroughSubprocess(wait, event_targets[1].value, current_step_num)
               ELSE IF event_targets[1].type = "gateway"
               THEN ChainThroughGateway(wait, event_targets[1].value, current_step_num)
               ELSE IF event_targets[1].type = "task"
               THEN wait \o " and Then "
                    \o routing_verb(event_targets[1].value, current_step_num)
                    \o " to Step " \o ToString(event_targets[1].value)
               ELSE IF event_targets[1].type = "end"
               THEN wait \o ", then Process Ends (" \o event_targets[1].value \o ")"
               ELSE wait

(***************************************************************************)
(* _check_intermediate_before_subprocess                                   *)
(***************************************************************************)
check_intermediate_before_subprocess(subprocess_id) ==
    IF subprocess_id \notin DOMAIN subprocesses THEN ""
    ELSE LET named == Filter(subprocesses[subprocess_id].incoming,
                 LAMBDA f : /\ f \in DOMAIN flows
                            /\ flows[f].source \in DOMAIN events
                            /\ events[flows[f].source].type = "intermediate"
                            /\ events[flows[f].source].name # "")
         IN IF named = <<>> THEN "" ELSE events[flows[named[1]].source].name

(***************************************************************************)
(* _generate_gateway_rows: the lettered case rows of an exclusive gateway. *)
(***************************************************************************)
SubprocessSortKey == 5000

Letters == <<"A", "B", "C", "D", "E", "F", "G", "H", "I", "J", "K", "L", "M",
             "N", "O", "P", "Q", "R", "S", "T", "U", "V", "W", "X", "Y", "Z">>

\* flow_doc_by_name.get(flow_name): the documentation of the last named and
\* documented outgoing flow of the gateway that carries this name
flow_doc_by_name(gateway_id, flow_name) ==
    LET docs == Filter(gateways[gateway_id].outgoing,
                       LAMBDA f : /\ f \in DOMAIN flows
                                  /\ flows[f].documentation # ""
                                  /\ flows[f].name # ""
                                  /\ flows[f].name = flow_name)
    IN IF docs = <<>> THEN "" ELSE flows[docs[Len(docs)]].documentation

Case(ty, name, doc, key) ==
    [target_type |-> ty, flow_name |-> name, flow_documentation |-> doc, sort_key |-> key,
     target_step |-> NoNumber, is_revert |-> FALSE, end_name |-> "",
     subprocess_name |-> "", subprocess_id |-> "", parallel_targets |-> <<>>,
     gateway_type |-> "", event_name |-> ""]

\* every unnamed flow labelled with the bracketed placeholder
OrDefault_Bracketed(flow_name, default) ==
    IF flow_name # "" THEN flow_name ELSE "[CONDITION UNLABELED]"

OrDefault(flow_name, default) == IF flow_name # "" THEN flow_name ELSE default

\* (0, target_num) for a revert, (1, -target_num) for a proceed
RevertKey(is_revert, target_num) ==
    IF is_revert THEN <<0, target_num>> ELSE <<1, 0 - target_num>>

\* a self-loop taken for a proceed: is_revert = target_num < parent_num
DirectIsRevert_Strict(target_num, parent_num) == target_num < parent_num

\* lines 1419-1444 and 1561-1577: is_revert = target_num <= parent_num
DirectIsRevert(target_num, parent_num) == target_num <= parent_num

\* lines 1493, 1519, 1613, 1631: is_revert = target_num < parent_num
NestedIsRevert(target_num, parent_num) == target_num < parent_num

TaskCase(ty, flow_name, doc, target_num, is_revert, event_name) ==
    [Case(ty, OrDefault(flow_name, "[CONDITION UNLABELED]"), doc,
          RevertKey(is_revert, target_num))
       EXCEPT !.target_step = target_num, !.is_revert = is_revert, !.event_name = event_name]

EndCase(ty, flow_name, doc, end_name, event_name) ==
    [Case(ty, OrDefault(flow_name, "Complete"), doc, <<0 - 1, 0>>)
       EXCEPT !.end_name = end_name, !.event_name = event_name]

SubprocessCase(ty, flow_name, doc, subprocess_id, event_name) ==
    [Case(ty, OrDefault(flow_name, "Proceed"), doc, <<1, SubprocessSortKey>>)
       EXCEPT !.subprocess_name = subprocesses[subprocess_id].name,
              !.subprocess_id = subprocess_id, !.event_name = event_name]

ParallelCase(ty, flow_name, doc, task_targets_sorted, gateway_type, parent_num, event_name) ==
    LET is_revert == NestedIsRevert(task_targets_sorted[1], parent_num)
    IN [Case(ty, OrDefault(flow_name, "[CONDITION UNLABELED]"), doc,
             RevertKey(is_revert, task_targets_sorted[1]))
          EXCEPT !.parallel_targets = task_targets_sorted, !.gateway_type = gateway_type,
                 !.is_revert = is_revert, !.event_name = event_name]

IsParallelSplit(gateway_id) ==
    /\ gateway_id \in DOMAIN gateways
    /\ gateways[gateway_id].type \in {"AND", "OR"}
    /\ Len(gateways[gateway_id].outgoing) > 1

\* lines 1468-1544: the outgoing flow leads to another gateway
CasesThroughGateway(flow_name, doc, intermediate_gateway_id, parent_num) ==
    LET intermediate_targets == get_target_step_numbers(intermediate_gateway_id)
        task_targets == TaskValues(intermediate_targets)
    IN IF IsParallelSplit(intermediate_gateway_id)
       THEN (IF task_targets # <<>>
             THEN <<ParallelCase("parallel", flow_name, doc, SortedInts(task_targets),
                                 gateways[intermediate_gateway_id].type, parent_num, "")>>
             ELSE <<>>)
       ELSE Flatten([i \in DOMAIN intermediate_targets |->
               LET it == intermediate_targets[i]
               IN IF it.type = "task"
                  THEN <<TaskCase("task", flow_name, doc, it.value,
                                  NestedIsRevert(it.value, parent_num), "")>>
                  ELSE IF it.type = "end"
                  THEN <<EndCase("end", flow_name, doc, it.value, "")>>
                  ELSE <<>>])

\* lines 1602-1656: gateway -> intermediate event -> gateway
CasesThroughEventGateway(flow_name, doc, inter_gw_id, parent_num, event_name) ==
    LET inter_gw_targets == get_target_step_numbers(inter_gw_id)
        task_targets == SortedInts(TaskValues(inter_gw_targets))
        first == Filter(inter_gw_targets, LAMBDA t : t.type \in {"task", "end"})
    IN IF IsParallelSplit(inter_gw_id)
       THEN (IF task_targets # <<>>
             THEN <<ParallelCase("intermediate_parallel", flow_name, doc, task_targets,
                                 gateways[inter_gw_id].type, parent_num, event_name)>>
             ELSE <<>>)
       ELSE IF first = <<>> THEN <<>>
       ELSE IF first[1].type = "task"
       THEN <<TaskCase("intermediate_task", flow_name, doc, first[1].value,
                       NestedIsRevert(first[1].value, parent_num), event_name)>>
       ELSE <<EndCase("intermediate_end", flow_name, doc, first[1].value, event_name)>>

\* lines 1545-1656: the outgoing flow leads to an intermediate event
CasesThroughEvent(flow_name, doc, event_id, parent_num) ==
    LET event_name == OrDefault(events[event_id].name, "Event")
        event_targets == get_target_step_numbers(event_id)
    IN IF event_targets = <<>> THEN <<>>
       ELSE LET first_et_type == event_targets[1].type
                first_et_value == event_targets[1].value
            IN IF first_et_type = "task"
               THEN <<TaskCase("intermediate_task", flow_name, doc, first_et_value,
                               DirectIsRevert(first_et_value, parent_num), event_name)>>
               ELSE IF first_et_type = "end"
               THEN <<EndCase("intermediate_end", flow_name, doc, first_et_value, event_name)>>
               ELSE IF first_et_type = "subprocess"
               THEN <<SubprocessCase("intermediate_subprocess", flow_name, doc,
                                     first_et_value, event_name)>>
               ELSE IF first_et_type = "gateway"
               THEN CasesThroughEventGateway(flow_name, doc, first_et_value,
                                             parent_num, event_name)
               ELSE <<>>

\* the branch of the end events forgotten: a flow to an end event yields no case
CasesOfTarget_NoEndCase(gateway_id, target, parent_num) ==
    LET flow_name == target.flow_name
        doc == flow_doc_by_name(gateway_id, flow_name)
    IN IF target.type = "task"
       THEN <<TaskCase("task", flow_name, doc, target.value,
                       DirectIsRevert(target.value, parent_num), "")>>
       ELSE IF target.type = "subprocess"
       THEN <<SubprocessCase("subprocess", flow_name, doc, target.value, "")>>
       ELSE IF target.type = "gateway"
       THEN CasesThroughGateway(flow_name, doc, target.value, parent_num)
       ELSE IF target.type = "intermediate"
       THEN CasesThroughEvent(flow_name, doc, target.value, parent_num)
       ELSE <<>>

\* lines 1418-1656: the cases one resolved target of the gateway contributes
CasesOfTarget(gateway_id, target, parent_num) ==
    LET flow_name == target.flow_name
        doc == flow_doc_by_name(gateway_id, flow_name)
    IN IF target.type = "task"
       THEN <<TaskCase("task", flow_name, doc, target.value,
                       DirectIsRevert(target.value, parent_num), "")>>
       ELSE IF target.type = "end"
       THEN <<EndCase("end", flow_name, doc, target.value, "")>>
       ELSE IF target.type = "subprocess"
       THEN <<SubprocessCase("subprocess", flow_name, doc, target.value, "")>>
       ELSE IF target.type = "gateway"
       THEN CasesThroughGateway(flow_name, doc, target.value, parent_num)
       ELSE IF target.type = "intermediate"
       THEN CasesThroughEvent(flow_name, doc, target.value, parent_num)
       ELSE <<>>

\* cases_with_dest after the sort of line 1659
cases_with_dest(parent_step, gateway_id) ==
    LET targets == get_target_step_numbers(gateway_id)
    IN SortBySortKey(Flatten([i \in DOMAIN targets |->
                                 CasesOfTarget(gateway_id, targets[i], parent_step)]))

Para(text, size, bold) ==
    [text |-> text, font_size |-> size, bold |-> bold, alignment |-> "JUSTIFY"]

Blank == Para("", 11, FALSE)

Connector(gateway_type) == IF gateway_type = "OR" THEN " and/or Step " ELSE " and Step "

\* lines 1674-1710: routing of a case that starts a subprocess
SubprocessCaseRouting(case, parent_step) ==
    LET start == "Start " \o case.subprocess_name \o " Process"
        subprocess_targets == get_target_step_numbers(case.subprocess_id)
    IN IF subprocess_targets = <<>> THEN start
       ELSE IF subprocess_targets[1].type = "task"
       THEN start \o ", then " \o routing_verb(subprocess_targets[1].value, parent_step)
            \o " to Step " \o ToString(subprocess_targets[1].value)
       ELSE IF subprocess_targets[1].type = "gateway"
       THEN LET sp_gw_id == subprocess_targets[1].value
                task_targets == SortedInts(TaskValues(get_target_step_numbers(sp_gw_id)))
            IN IF IsParallelSplit(sp_gw_id) /\ task_targets # <<>>
               THEN start \o ", then " \o routing_verb(task_targets[1], parent_step)
                    \o " to Step " \o Join(task_targets, Connector(gateways[sp_gw_id].type))
               ELSE start
       ELSE IF subprocess_targets[1].type = "end"
       THEN start \o ", then Process Ends (" \o subprocess_targets[1].value \o ")"
       ELSE start

\* lines 1733-1750: gateway -> intermediate event -> subprocess
EventSubprocessCaseRouting(case, parent_step) ==
    LET start == "Wait until " \o case.event_name \o " Then Start " \o case.subprocess_name
                 \o process_suffix(case.subprocess_name)
        subprocess_targets == get_target_step_numbers(case.subprocess_id)
    IN IF subprocess_targets # <<>> /\ subprocess_targets[1].type = "task"
       THEN start \o ", then " \o routing_verb(subprocess_targets[1].value, parent_step)
            \o " to Step " \o ToString(subprocess_targets[1].value)
       ELSE IF subprocess_targets # <<>> /\ subprocess_targets[1].type = "end"
       THEN start \o ", then Process Ends (" \o subprocess_targets[1].value \o ")"
       ELSE start

RevertOrProceedTo(case) == IF case.is_revert THEN "Revert to" ELSE "Proceed to"

\* lines 1666-1760: the routing sentence of a case
routing_text(case, parent_step) ==
    IF case.target_type = "task"
    THEN RevertOrProceedTo(case) \o " Step " \o ToString(case.target_step)
    ELSE IF case.target_type = "end"
    THEN "Process Ends (" \o case.end_name \o ")"
    ELSE IF case.target_type = "subprocess"
    THEN SubprocessCaseRouting(case, parent_step)
    ELSE IF case.target_type = "parallel"
    THEN RevertOrProceedTo(case) \o " Step "
         \o Join(case.parallel_targets, Connector(case.gateway_type))
    ELSE IF case.target_type = "intermediate_task"
    THEN "Wait until " \o case.event_name \o " Then " \o RevertOrProceedTo(case)
         \o " Step " \o ToString(case.target_step)
    ELSE IF case.target_type = "intermediate_end"
    THEN "Wait until " \o case.event_name \o ", then Process Ends (" \o case.end_name \o ")"
    ELSE IF case.target_type = "intermediate_subprocess"
    THEN EventSubprocessCaseRouting(case, parent_step)
    ELSE "Wait until " \o case.event_name \o " Then " \o RevertOrProceedTo(case)
         \o " Step " \o Join(case.parallel_targets, Connector(case.gateway_type))

explanation_text(case) ==
    IF case.flow_documentation # "" THEN case.flow_documentation
    ELSE "[Condition explanation for " \o case.flow_name \o "]"

\* gateway_case_row, the case row carrying no RACI of its parent
gateway_case_row_NoRaci(case, i, parent_step, parent_raci) ==
    [ref |-> ToString(parent_step) \o Letters[i],
     is_gateway |-> TRUE,
     sla |-> "",
     sla_group |-> "",
     raci |-> NoRaci,
     paragraphs |-> << Para("Case " \o Letters[i] \o ": " \o case.flow_name, 12, TRUE),
                       Blank,
                       Para(explanation_text(case), 11, FALSE),
                       Blank,
                       Para(routing_text(case, parent_step), 12, TRUE) >>]

\* lines 1661-1778: one row per sorted case
gateway_case_row(case, i, parent_step, parent_raci) ==
    [ref |-> ToString(parent_step) \o Letters[i],
     is_gateway |-> TRUE,
     sla |-> "",
     sla_group |-> "",
     raci |-> parent_raci,
     paragraphs |-> << Para("Case " \o Letters[i] \o ": " \o case.flow_name, 12, TRUE),
                       Blank,
                       Para(explanation_text(case), 11, FALSE),
                       Blank,
                       Para(routing_text(case, parent_step), 12, TRUE) >>]

generate_gateway_rows(parent_step, gateway_id, parent_raci) ==
    IF gateway_id \notin DOMAIN gateways THEN <<>>
    ELSE LET cases == cases_with_dest(parent_step, gateway_id)
         IN [i \in DOMAIN cases |-> gateway_case_row(cases[i], i, parent_step, parent_raci)]

(***************************************************************************)
(* generate_sop_rows: one row per numbered task, in step order, each       *)
(* followed by the case rows of its exclusive gateway.                     *)
(***************************************************************************)
\* task_label.lower()
Lower(label) ==
    IF label = "Review" THEN "review"
    ELSE IF label = "Check D" THEN "check d"
    ELSE IF label = "Check V" THEN "check v"
    ELSE "check t" \o ToString(CHOOSE k \in 1..MaxStep : label = "Check " \o T(k))

\* the documentation lines of the row family: line.rstrip(), line.strip(),
\* line.lower().startswith('shall '), line[6:].strip() and
\* line.endswith(('.', '!', '?'))
RStrip(line) == IF line = "   " THEN "" ELSE line

Strip(line) == IF line = "  - keep a copy" THEN "- keep a copy" ELSE RStrip(line)

StartsWithShall(line) == line = "Shall file the form."

AfterShall(line) == "file the form."

EndsWithStop(line) == line \in {"Shall file the form.", "file the form.", "notify Ops!"}

\* ensure_period(head + tail), tail being the part the text ends with: no
\* text of the family ends in white space
ensure_period(head, tail) ==
    head \o tail \o (IF head \o tail = "" \/ EndsWithStop(tail) THEN "" ELSE ".")

\* lines 1044-1047: the numbered tasks, stably sorted by int(number)
sorted_tasks ==
    LET numbered == Filter(TaskOrder, LAMBDA id : id \in DOMAIN tasks
                                                   /\ tasks[id].number # NoNumber)
        keyed == [i \in DOMAIN numbered |->
                     [task_id |-> numbered[i], sort_key |-> <<tasks[numbered[i]].number, 0>>]]
        sorted == SortBySortKey(keyed)
    IN [i \in DOMAIN sorted |-> sorted[i].task_id]

\* revert_step without the comparison of the step numbers
revert_step_AnyTask(targets, step_num) ==
    LET back == Filter(targets, LAMBDA t : t.type = "task")
    IN IF back = <<>> THEN NoNumber ELSE back[1].value

\* lines 1127-1135: the first task target with a smaller step number
revert_step(targets, step_num) ==
    LET back == Filter(targets, LAMBDA t : t.type = "task" /\ t.value < step_num)
    IN IF back = <<>> THEN NoNumber ELSE back[1].value

\* _get_task_sla for a task without SLA documentation and without a shape
get_task_sla(task_id) == [sla |-> "", sla_group |-> ""]

\* lines 808-818: the step of the task the first outgoing flow of the
\* boundary event leads to
boundary_target_step(boundary) ==
    IF boundary.outgoing # <<>> /\ boundary.outgoing[1] \in DOMAIN flows
       /\ flows[boundary.outgoing[1]].target \in DOMAIN tasks
    THEN tasks[flows[boundary.outgoing[1]].target].number
    ELSE NoNumber

\* lines 820-826
boundary_condition(boundary) ==
    IF boundary.event_type = "timer"
    THEN "performing the activity took more than " \o boundary.name
    ELSE boundary.name \o " during performing the activity"

NoNext == Tgt("none", "", "")

\* normal_next without the hop through a gateway
normal_next_NoHop(task_id) ==
    LET decisive == Filter(get_target_step_numbers(task_id),
                           LAMBDA t : t.type \in {"task", "gateway", "end"})
    IN IF decisive = <<>> \/ decisive[1].type = "gateway" THEN NoNext ELSE decisive[1]

\* lines 836-862: the first target of the task that is a task, a gateway or
\* an end event; behind a gateway the first target that is a task or an end
\* event
normal_next(task_id) ==
    LET decisive == Filter(get_target_step_numbers(task_id),
                           LAMBDA t : t.type \in {"task", "gateway", "end"})
    IN IF decisive = <<>> THEN NoNext
       ELSE IF decisive[1].type = "gateway"
       THEN LET behind == Filter(get_target_step_numbers(decisive[1].value),
                                 LAMBDA t : t.type \in {"task", "end"})
            IN IF behind = <<>> THEN NoNext ELSE behind[1]
       ELSE decisive[1]

\* lines 828-870: the sentence of one boundary event
boundary_text(task_id, boundary) ==
    LET target_step == boundary_target_step(boundary)
        condition == boundary_condition(boundary)
        next == normal_next(task_id)
    IN IF boundary.interrupting
       THEN "If " \o condition \o ", stop the activity and proceed to step "
            \o ToString(target_step)
       ELSE "If " \o condition \o ", proceed to step " \o ToString(target_step)
            \o " and complete the activity"
            \o (IF next.type = "task" THEN ", then proceed to step " \o ToString(next.value)
                ELSE IF next.type = "end" THEN ", then Process Ends (" \o next.value \o ")"
                ELSE "")

\* _check_boundary_events
check_boundary_events(task_id) ==
    IF task_id \notin DOMAIN boundary_events THEN <<>>
    ELSE LET stated == Filter(boundary_events[task_id],
                              LAMBDA b : b.name # "" /\ boundary_target_step(b) # NoNumber)
         IN [i \in DOMAIN stated |-> boundary_text(task_id, stated[i])]

\* lane_raci.get(lane_id, default)
task_raci(task_id) ==
    IF tasks[task_id].lane_id \in DOMAIN lane_raci
    THEN lane_raci[tasks[task_id].lane_id] ELSE NoRaci

\* lines 1050-1193: the row of the task before any routing is appended
TaskRowOf(task_id, task_subprocess_chain, multi_input, revert) ==
    LET task == tasks[task_id]
        step_num == task.number
        intermediate_event == IF task_subprocess_chain # "" THEN ""
                              ELSE check_intermediate_event(task_id)
        title_text == IF multi_input # "" THEN task.label \o " " \o multi_input
                      ELSE task.label
        doc_lines == [i \in DOMAIN task.documentation |-> RStrip(task.documentation[i])]
        first_line == IF doc_lines # <<>> THEN Strip(doc_lines[1]) ELSE ""
        extra_doc_lines == IF doc_lines # <<>> THEN Tail(doc_lines) ELSE <<>>
        desc_text ==
            IF intermediate_event # ""
            THEN ensure_period("The " \o task.lane \o " shall wait until "
                                   \o intermediate_event \o " Then ",
                               IF first_line = "" THEN Lower(task.label)
                               ELSE IF StartsWithShall(first_line) THEN AfterShall(first_line)
                               ELSE first_line)
            ELSE ensure_period("The " \o task.lane
                                   \o (IF first_line # "" /\ StartsWithShall(first_line)
                                       THEN " " ELSE " shall "),
                               IF first_line = "" THEN Lower(task.label) ELSE first_line)
        extra_lines == Filter(extra_doc_lines, LAMBDA line : line # "")
        boundary_texts == check_boundary_events(task_id)
        sla == get_task_sla(task_id)
    IN [ref |-> ToString(step_num),
        is_gateway |-> FALSE,
        sla |-> sla.sla,
        sla_group |-> sla.sla_group,
        raci |-> task_raci(task_id),
        paragraphs |->
            << Para(title_text, 12, TRUE), Blank, Para(desc_text, 11, FALSE) >>
            \o (IF extra_doc_lines # <<>>
                THEN <<Blank>>
                     \o [i \in DOMAIN extra_lines |->
                            Para(IF i = Len(extra_lines)
                                 THEN ensure_period("", extra_lines[i])
                                 ELSE extra_lines[i], 11, FALSE)]
                ELSE <<>>)
            \o (IF task_subprocess_chain # ""
                THEN <<Blank, Para(task_subprocess_chain, 12, TRUE)>> ELSE <<>>)
            \o Flatten([i \in DOMAIN boundary_texts |->
                           <<Blank, Para(boundary_texts[i], 11, TRUE)>>])
            \o (IF revert # NoNumber
                THEN <<Blank, Para("Revert to Step " \o ToString(revert), 12, TRUE)>>
                ELSE <<>>)]

task_row(task_id) ==
    TaskRowOf(task_id,
              check_task_intermediate_chain(task_id, tasks[task_id].number),
              detect_multi_input(task_id),
              revert_step(get_target_step_numbers(task_id), tasks[task_id].number))

\* lines 1203-1241: the first gateway target that is an AND/OR join before an
\* end event; the loop breaks there
\* an AND/OR join whose continuation is an end event and no task
JoinsBeforeEnd(join_targets) ==
    /\ \E i \in DOMAIN join_targets : join_targets[i].type = "end"
    /\ \A i \in DOMAIN join_targets : join_targets[i].type # "task"

FirstJoinTarget(targets) ==
    LET joins == Filter(targets,
                   LAMBDA t : /\ t.type = "gateway"
                              /\ gateways[t.value].type \in {"AND", "OR"}
                              /\ Len(gateways[t.value].incoming) > 1
                              /\ JoinsBeforeEnd(get_target_step_numbers(t.value)))
    IN IF joins = <<>> THEN "" ELSE joins[1].value

\* lines 1216-1230: the steps of the other branches feeding the join
other_steps(task_id, join_id) ==
    LET inc == gateways[join_id].incoming
    IN Flatten([i \in DOMAIN inc |->
          IF inc[i] \notin DOMAIN flows THEN <<>>
          ELSE LET source_id == flows[inc[i]].source
               IN IF source_id = task_id THEN <<>>
                  ELSE IF source_id \in DOMAIN tasks
                  THEN (IF tasks[source_id].number # NoNumber
                        THEN <<tasks[source_id].number>> ELSE <<>>)
                  ELSE IF source_id \in DOMAIN gateways
                  THEN LET traced == trace_gateway_to_task(source_id, {}).result
                       IN IF traced # NoNumber THEN <<traced>> ELSE <<>>
                  ELSE <<>>])

\* lines 1198-1241: "Wait until step ... completed then Process Ends (...)"
parallel_join_end_text(task_id, targets) ==
    LET join_id == FirstJoinTarget(targets)
    IN IF join_id = "" THEN ""
       ELSE LET join_targets == get_target_step_numbers(join_id)
                end_targets == Filter(join_targets, LAMBDA t : t.type = "end")
                task_targets_after == Filter(join_targets, LAMBDA t : t.type = "task")
                others == other_steps(task_id, join_id)
            IN IF end_targets # <<>> /\ task_targets_after = <<>> /\ others # <<>>
               THEN "Wait until step " \o Join(SortedSet(others), " and step ")
                    \o " completed then Process Ends (" \o end_targets[1].value \o ")"
               ELSE ""

\* lines 1279-1333: the sentence of a task whose only target is a subprocess
subprocess_text(subprocess_id, step_num) ==
    LET intermediate_event == check_intermediate_before_subprocess(subprocess_id)
        process_name == subprocesses[subprocess_id].name
        subprocess_targets == get_target_step_numbers(subprocess_id)
        start == (IF intermediate_event # ""
                  THEN "Wait for " \o intermediate_event \o " and Then Start "
                  ELSE "Start ")
                 \o process_name \o process_suffix(process_name)
    IN IF subprocess_targets # <<>> /\ subprocess_targets[1].type = "task"
       THEN start \o " Then " \o routing_verb(subprocess_targets[1].value, step_num)
            \o " to Step " \o ToString(subprocess_targets[1].value)
       ELSE IF subprocess_targets # <<>> /\ subprocess_targets[1].type = "end"
       THEN start \o ", then Process Ends (" \o subprocess_targets[1].value \o ")"
       ELSE start

IsParallelSplitAfterTask(gateway_id) ==
    /\ gateways[gateway_id].type \in {"AND", "OR"}
    /\ Len(gateways[gateway_id].incoming) = 1
    /\ Len(gateways[gateway_id].outgoing) > 1

\* the branch of the single end event target forgotten
trailing_text_NoEnd(task_id, targets) ==
    LET step_num == tasks[task_id].number
    IN IF Len(targets) = 1 /\ targets[1].type = "subprocess"
       THEN subprocess_text(targets[1].value, step_num)
       ELSE IF Len(targets) > 1 /\ \A i \in DOMAIN targets : targets[i].type = "task"
       THEN "Proceed to Step " \o Join(SortedInts(TaskValues(targets)), " and Step ")
       ELSE ""

\* lines 1246-1359: the trailing routing sentence ("" when there is none)
trailing_text(task_id, targets) ==
    LET step_num == tasks[task_id].number
    IN IF Len(targets) = 1 /\ targets[1].type = "gateway"
       THEN LET gateway_id == targets[1].value
                task_targets == SortedInts(TaskValues(get_target_step_numbers(gateway_id)))
            IN IF IsParallelSplitAfterTask(gateway_id) /\ Len(task_targets) > 1
               THEN "Proceed to Step " \o Join(task_targets, Connector(gateways[gateway_id].type))
               ELSE ""
       ELSE IF Len(targets) = 1 /\ targets[1].type = "subprocess"
       THEN subprocess_text(targets[1].value, step_num)
       ELSE IF Len(targets) = 1 /\ targets[1].type = "end"
       THEN "Process Ends (" \o targets[1].value \o ")"
       ELSE IF Len(targets) > 1 /\ \A i \in DOMAIN targets : targets[i].type = "task"
       THEN "Proceed to Step " \o Join(SortedInts(TaskValues(targets)), " and Step ")
       ELSE ""

\* lines 1273-1276: the case rows of the exclusive gateway that is the only target
case_rows(task_id, targets) ==
    IF /\ Len(targets) = 1
       /\ targets[1].type = "gateway"
       /\ ~IsParallelSplitAfterTask(targets[1].value)
       /\ gateways[targets[1].value].type = "XOR"
    THEN generate_gateway_rows(tasks[task_id].number, targets[1].value, task_raci(task_id))
    ELSE <<>>

Extend(row, text) ==
    [row EXCEPT !.paragraphs = @ \o <<Blank, Para(text, 12, TRUE)>>]

\* one iteration of the loop of lines 1049-1359: the rows of one task
\* the row with the routing sentence appended, then the case rows
RoutedRows_CasesFirst(row, targets, wait_text, trailing, cases) ==
    IF Len(targets) = 0 THEN <<row>>
    ELSE IF wait_text # "" THEN <<Extend(row, wait_text)>>
    ELSE cases \o <<IF trailing # "" THEN Extend(row, trailing) ELSE row>>

RoutedRows(row, targets, wait_text, trailing, cases) ==
    IF Len(targets) = 0 THEN <<row>>
    ELSE IF wait_text # "" THEN <<Extend(row, wait_text)>>
    ELSE <<IF trailing # "" THEN Extend(row, trailing) ELSE row>> \o cases

RowsAfter(row, task_id, targets) ==
    RoutedRows(row, targets, parallel_join_end_text(task_id, targets),
               trailing_text(task_id, targets), case_rows(task_id, targets))

rows_of_task(task_id) ==
    RowsAfter(task_row(task_id), task_id, get_target_step_numbers(task_id))

generate_sop_rows ==
    Flatten([i \in DOMAIN sorted_tasks |-> rows_of_task(sorted_tasks[i])])

(***************************************************************************)
(* The graph traversals of BPMNParser, one call or loop iteration per      *)
(* step: _find_first_task_from_element, _trace_gateway_to_task,            *)
(* _trace_back_to_split_gateway and the trace_source closure of            *)
(* _detect_step_trigger_input.  walk.stack is the Python call stack, each  *)
(* frame holding the element of the call and the flows its loop has still  *)
(* to look at; walk.pending is the call about to be entered or the value   *)
(* just returned; walk.expanded lists the elements whose call went past    *)
(* the visited check, walk.met_again those a call found visited, and       *)
(* walk.met_on_stack those of them whose own call was still running;       *)
(* walk.steps counts the steps taken.                                      *)
(***************************************************************************)
\* the value of a call: None, a step number, or (gateway id, gateway type)
NoValue == [found |-> FALSE, step |-> NoNumber, id |-> "", type |-> ""]
StepValue(step) == [found |-> TRUE, step |-> step, id |-> "", type |-> ""]
SplitValue(gateway_id) ==
    [found |-> TRUE, step |-> NoNumber, id |-> gateway_id, type |-> gateways[gateway_id].type]

NoPending == [type |-> "none", element |-> "", value |-> NoValue]
CallOf(element_id) == [type |-> "call", element |-> element_id, value |-> NoValue]
ReturnOf(v) == [type |-> "return", element |-> "", value |-> v]

Frame(element_id, todo) == [element |-> element_id, todo |-> todo]

\* the first lines of each traversal: "if element_id in visited: return None"
visited_before_Never(element_id, visited) == FALSE
visited_before(element_id, visited) == element_id \in visited

\* what a call does with element_id once it is marked visited: return a
\* value at once, or start a loop over flows, or (split search) call on
Prologue(kind, element_id) ==
    IF kind = "find_first_task_from_element"
    THEN [push |-> TRUE, call |-> "", value |-> NoValue,
          todo |-> IF element_id \in DOMAIN events THEN events[element_id].outgoing
                   ELSE IF element_id \in DOMAIN gateways THEN gateways[element_id].outgoing
                   ELSE <<>>]
    ELSE IF kind = "trace_gateway_to_task"
    THEN (IF element_id \notin DOMAIN gateways
          THEN [push |-> FALSE, call |-> "", value |-> NoValue, todo |-> <<>>]
          ELSE [push |-> TRUE, call |-> "", value |-> NoValue,
                todo |-> gateways[element_id].incoming])
    ELSE IF kind = "trace_back_to_split_gateway"
    THEN (IF element_id \in DOMAIN gateways
             /\ Len(gateways[element_id].incoming) = 1
             /\ Len(gateways[element_id].outgoing) > 1
          THEN [push |-> FALSE, call |-> "", todo |-> <<>>,
                value |-> SplitValue(element_id)]
          ELSE IF element_id \notin DOMAIN gateways /\ element_id \notin DOMAIN tasks
          THEN [push |-> FALSE, call |-> "", value |-> NoValue, todo |-> <<>>]
          ELSE LET incoming_flows == IF element_id \in DOMAIN gateways
                                     THEN gateways[element_id].incoming
                                     ELSE tasks[element_id].incoming
               IN IF Len(incoming_flows) # 1 \/ incoming_flows[1] \notin DOMAIN flows
                  THEN [push |-> FALSE, call |-> "", value |-> NoValue, todo |-> <<>>]
                  ELSE [push |-> TRUE, call |-> flows[incoming_flows[1]].source,
                        value |-> NoValue, todo |-> <<>>])
    ELSE \* trace_source
         IF element_id \in DOMAIN events /\ events[element_id].type # "start"
         THEN [push |-> TRUE, call |-> "", value |-> NoValue,
               todo |-> events[element_id].incoming]
         ELSE IF element_id \in DOMAIN gateways
         THEN [push |-> TRUE, call |-> "", value |-> NoValue,
               todo |-> gateways[element_id].incoming]
         ELSE IF element_id \in DOMAIN subprocesses
         THEN [push |-> TRUE, call |-> "", value |-> NoValue,
               todo |-> subprocesses[element_id].incoming]
         ELSE [push |-> FALSE, call |-> "", value |-> NoValue, todo |-> <<>>]

\* trace_source: the sources recorded when the call reaches a task or a
\* start event
RecordedSteps(w, element_id) ==
    IF /\ w.kind = "trace_source"
       /\ element_id \in DOMAIN tasks
       /\ tasks[element_id].number # NoNumber
       /\ tasks[element_id].number < w.current_task_num
    THEN {tasks[element_id].number} ELSE {}

RecordedTriggers(w, element_id) ==
    IF /\ w.kind = "trace_source"
       /\ element_id \in DOMAIN events
       /\ events[element_id].type = "start"
       /\ element_id \in DOMAIN get_start_event_numbers
    THEN {get_start_event_numbers[element_id]} ELSE {}

\* a call can be entered unless it would nest deeper than MaxDepth
CanEnter ==
    /\ walk.status = "running"
    /\ walk.pending.type = "call"
    /\ \/ visited_before(walk.pending.element, walk.visited)
       \/ Prologue(walk.kind, walk.pending.element).push => Len(walk.stack) < MaxDepth

\* entering a call: the visited check, then the body up to its loop
Enter ==
    /\ CanEnter
    /\ LET element_id == walk.pending.element
       IN IF visited_before(element_id, walk.visited)
          THEN /\ walk' = [walk EXCEPT !.steps = @ + 1,
                              !.pending = ReturnOf(NoValue),
                              !.met_again = @ \cup {element_id},
                              !.met_on_stack = @ \cup
                                  ({element_id} \cap {walk.stack[i].element : i \in DOMAIN walk.stack})]
          ELSE LET p == Prologue(walk.kind, element_id)
               IN /\ walk' = [walk EXCEPT !.steps = @ + 1,
                        !.visited = @ \cup {element_id},
                        !.expanded = Append(@, element_id),
                        !.step_sources = @ \cup RecordedSteps(walk, element_id),
                        !.trigger_sources = @ \cup RecordedTriggers(walk, element_id),
                        !.stack = IF p.push THEN Append(@, Frame(element_id, p.todo)) ELSE @,
                        !.pending = IF ~p.push THEN ReturnOf(p.value)
                                    ELSE IF p.call # "" THEN CallOf(p.call)
                                    ELSE NoPending]
    /\ UNCHANGED <<tables, sop_rows, pc, sla_merges, app_state>>

\* what one iteration of the loop of a call does with flow_id
Iteration(kind, flow_id) ==
    IF flow_id \notin DOMAIN flows
    THEN [act |-> "continue", element |-> "", value |-> NoValue]
    ELSE IF kind = "find_first_task_from_element"
    THEN LET target_id == flows[flow_id].target
         IN IF target_id \in DOMAIN tasks /\ tasks[target_id].number # NoNumber
            THEN [act |-> "return", element |-> "", value |-> StepValue(tasks[target_id].number)]
            ELSE IF target_id \in DOMAIN gateways \/ target_id \in DOMAIN events
            THEN [act |-> "call", element |-> target_id, value |-> NoValue]
            ELSE [act |-> "continue", element |-> "", value |-> NoValue]
    ELSE IF kind = "trace_gateway_to_task"
    THEN LET source_id == flows[flow_id].source
         IN IF source_id \in DOMAIN tasks /\ tasks[source_id].number # NoNumber
            THEN [act |-> "return", element |-> "", value |-> StepValue(tasks[source_id].number)]
            ELSE IF source_id \in DOMAIN gateways
            THEN [act |-> "call", element |-> source_id, value |-> NoValue]
            ELSE [act |-> "continue", element |-> "", value |-> NoValue]
    ELSE [act |-> "call", element |-> flows[flow_id].source, value |-> NoValue]

\* one iteration of the loop of the call on top of the stack, or the end of
\* that call when its loop is over
CanIterate ==
    /\ walk.status = "running"
    /\ walk.pending.type = "none"
    /\ walk.stack # <<>>

Iterate ==
    /\ CanIterate
    /\ LET n == Len(walk.stack)
           top == walk.stack[n]
       IN IF top.todo = <<>>
          THEN walk' = [walk EXCEPT !.steps = @ + 1, !.stack = SubSeq(@, 1, n - 1),
                                    !.pending = ReturnOf(NoValue)]
          ELSE LET it == Iteration(walk.kind, Head(top.todo))
               IN IF it.act = "return"
                  THEN walk' = [walk EXCEPT !.steps = @ + 1, !.stack = SubSeq(@, 1, n - 1),
                                            !.pending = ReturnOf(it.value)]
                  ELSE walk' = [walk EXCEPT !.steps = @ + 1,
                                   !.stack[n].todo = Tail(@),
                                   !.pending = IF it.act = "call" THEN CallOf(it.element)
                                               ELSE NoPending]
    /\ UNCHANGED <<tables, sop_rows, pc, sla_merges, app_state>>

\* a call has returned: its caller returns a found result at once
\* ("if result: return result"), passes it on (split search) or goes on with
\* its loop; the outermost call ends the traversal
CanReturn ==
    /\ walk.status = "running"
    /\ walk.pending.type = "return"

Return ==
    /\ CanReturn
    /\ LET n == Len(walk.stack)
           v == walk.pending.value
       IN IF n = 0
          THEN walk' = [walk EXCEPT !.steps = @ + 1, !.status = "returned", !.result = v,
                                    !.pending = NoPending]
          ELSE IF \/ walk.kind = "trace_back_to_split_gateway"
                  \/ /\ walk.kind \in {"find_first_task_from_element", "trace_gateway_to_task"}
                     /\ v.found
          THEN walk' = [walk EXCEPT !.steps = @ + 1, !.stack = SubSeq(@, 1, n - 1)]
          ELSE walk' = [walk EXCEPT !.steps = @ + 1, !.pending = NoPending]
    /\ UNCHANGED <<tables, sop_rows, pc, sla_merges, app_state>>

NoWalk ==
    [kind |-> "none", status |-> "idle", stack |-> <<>>, visited |-> {},
     expanded |-> <<>>, met_again |-> {}, met_on_stack |-> {},
     pending |-> NoPending, result |-> NoValue, steps |-> 0,
     current_task_num |-> NoNumber, step_sources |-> {}, trigger_sources |-> {}]

BeginWalk(kind, element_id, current_task_num) ==
    [NoWalk EXCEPT !.kind = kind, !.status = "running", !.pending = CallOf(element_id),
                   !.current_task_num = current_task_num,
                   !.result = NoValue]

\* the calls the parser makes from outside the traversals
OuterCalls ==
    \* _get_start_event_numbers: every start event
    {BeginWalk("find_first_task_from_element", e, NoNumber) :
        e \in {e \in DOMAIN events : events[e].type = "start"}}
    \cup
    \* _detect_multi_input, generate_sop_rows: a gateway that feeds an AND/OR gateway
    {BeginWalk("trace_gateway_to_task", flows[f].source, NoNumber) :
        f \in {f \in DOMAIN flows : /\ flows[f].target \in DOMAIN gateways
                                    /\ gateways[flows[f].target].type \in {"AND", "OR"}
                                    /\ flows[f].source \in DOMAIN gateways}}
    \cup
    \* _detect_multi_input: the source of an incoming flow of a task
    {BeginWalk("trace_back_to_split_gateway", flows[f].source, NoNumber) :
        f \in {f \in DOMAIN flows : flows[f].target \in DOMAIN tasks}}
    \cup
    \* _detect_step_trigger_input: the source of an incoming flow of a numbered task
    {BeginWalk("trace_source", flows[f].source, tasks[flows[f].target].number) :
        f \in {f \in DOMAIN flows : /\ flows[f].target \in DOMAIN tasks
                                    /\ tasks[flows[f].target].number # NoNumber}}

(***************************************************************************)
(* Specification.                                                          *)
(***************************************************************************)
\* no invocation of parse_bpmn_to_sop in progress, no parser constructed
NoCalls == [heap |-> <<>>, frames |-> <<>>]

\* the application before any request
NoRequest == [number |-> 0, well_formed |-> TRUE, process_name |-> ""]
NoDocument == <<[ref |-> "NO DOCUMENT"]>>

\* no add_entry call has been made
NoEntry == [timestamp |-> 0]

InitApp ==
    /\ request = NoRequest
    /\ history = <<>>
    /\ entry = NoEntry
    /\ archives = <<>>
    /\ document = NoDocument
    /\ response = "none"
    /\ calls = NoCalls

InitWith(Ds, GatewayTypes) ==
    /\ \E fs \in Ds, atype \in GatewayTypes : parse_structure(fs, atype)
    /\ sop_rows = <<>>
    /\ sla_merges = <<>>
    /\ pc = "parsed"
    /\ InitApp
    /\ walk = NoWalk

Generate ==
    /\ pc = "parsed"
    /\ sop_rows' = generate_sop_rows
    /\ pc' = "done"
    /\ UNCHANGED <<tables, sla_merges, app_state, walk>>

Next == Generate

SpecXor == InitWith(Diagrams(XorFamily), {"AND", "OR", "XOR"}) /\ [][Next]_vars
SpecRoute == InitWith(Diagrams(RouteFamily), {"AND", "OR"}) /\ [][Next]_vars
SpecInput == InitWith(Diagrams(InputFamily), {"AND", "OR", "XOR"}) /\ [][Next]_vars
SpecJoin == InitWith(SubsetsUpTo(JoinFamily, MaxJoinFlows), {"AND", "OR"}) /\ [][Next]_vars

(***************************************************************************)
(* Documents with one dangling sequence flow: a flow id that an element    *)
(* lists but that has no <bpmn:sequenceFlow> element ("absent"), or a      *)
(* sequence flow whose targetRef or sourceRef names no element.            *)
(***************************************************************************)
NoElement == "Z"

DanglingKinds == {"absent", "no_target", "no_source"}

\* diagrams around the successors of task T2 and the predecessors of task T3
DanglingFamily ==
    {f \in FlowIds : Edge(f) \in {<<"T2", "X">>, <<"X", "T1">>, <<"X", "T3">>, <<"X", "E1">>,
                                  <<"T2", "E1">>, <<"T2", "P">>, <<"P", "T3">>,
                                  <<"T1", "T3">>, <<"T2", "T3">>, <<"S1", "T3">>,
                                  <<"T1", "A">>, <<"T2", "A">>, <<"A", "T3">>,
                                  <<"A", "E1">>}}

\* the flows fs0 as the document states them, flow f being the dangling one
Dangle(fs0, f, kind) ==
    [g \in fs0 |->
        IF g # f \/ kind = "absent" THEN FlowUniverse[g]
        ELSE IF kind = "no_target" THEN [FlowUniverse[g] EXCEPT !.target = NoElement]
        ELSE [FlowUniverse[g] EXCEPT !.source = NoElement]]

InitDangling ==
    /\ \E fs0 \in Diagrams(DanglingFamily), f \in DanglingFamily, kind \in DanglingKinds :
          /\ f \in fs0
          /\ parse_elements(Dangle(fs0, f, kind),
                            IF kind = "absent" THEN fs0 \ {f} ELSE fs0, "AND")
    /\ sop_rows = <<>>
    /\ sla_merges = <<>>
    /\ pc = "parsed"
    /\ InitApp
    /\ walk = NoWalk

SpecDangling == InitDangling /\ [][Next]_vars

(***************************************************************************)
(* Documents whose task T2 carries documentation and boundary events.      *)
(***************************************************************************)
\* diagrams around task T2, its successors and its boundary events
RowFamily ==
    {f \in DOMAIN FlowUniverse :
        Edge(f) \in {<<"T2", "T1">>, <<"T2", "T3">>, <<"T2", "E1">>, <<"T2", "X">>,
                     <<"T2", "A">>, <<"T2", "I">>, <<"I", "P">>, <<"X", "T3">>,
                     <<"A", "E1">>, <<"B1", "T1">>, <<"B1", "E1">>, <<"B2", "T3">>}}

\* the documentation of task T2: none, one line, a line that starts with
\* "shall", and several lines
DocKinds ==
    { <<>>,
      <<"verify the form">>,
      <<"Shall file the form.">>,
      <<"verify the form", "   ", "  - keep a copy">>,
      <<"verify the form", "notify Ops!">> }

Boundary(id, name, event_type, interrupting) ==
    [id |-> id, name |-> name, event_type |-> event_type, interrupting |-> interrupting]

\* the boundary events of task T2: B1 a timer or a message event, named or
\* not, cancelActivity true or false; B2 an interrupting signal event
BoundaryKinds ==
    {<<>>}
    \cup {<<b1>> \o rest :
            b1 \in {Boundary("B1", "30 min", "timer", TRUE),
                    Boundary("B1", "30 min", "timer", FALSE),
                    Boundary("B1", "Complaint", "message", FALSE),
                    Boundary("B1", "", "", TRUE)},
            rest \in {<<>>, <<Boundary("B2", "Escalation", "signal", TRUE)>>}}

InitRow ==
    /\ \E fs0 \in Diagrams(RowFamily), docs \in DocKinds, attached \in BoundaryKinds :
          /\ \A f \in fs0 : FlowUniverse[f].source \in {"B1", "B2"}
                => \E i \in DOMAIN attached : attached[i].id = FlowUniverse[f].source
          /\ parse_document([f \in fs0 |-> FlowUniverse[f]], fs0, "AND", docs, attached)
    /\ sop_rows = <<>>
    /\ sla_merges = <<>>
    /\ pc = "parsed"
    /\ InitApp
    /\ walk = NoWalk

SpecRow == InitRow /\ [][Next]_vars

(***************************************************************************)
(* Documents whose exclusive gateway "X" follows task T2 and has outgoing  *)
(* flows without a name attribute.                                         *)
(***************************************************************************)
\* the flows behind the exclusive gateway
LabelFamily ==
    {f \in FlowIds :
        Edge(f) \in {<<"X", "T1">>, <<"X", "T3">>, <<"X", "E1">>, <<"X", "P">>,
                     <<"X", "A">>, <<"X", "I">>, <<"A", "T3">>, <<"A", "E1">>,
                     <<"P", "T3">>, <<"P", "E1">>, <<"I", "T3">>, <<"I", "E1">>,
                     <<"I", "P">>}}

\* the flows fs0 as the document states them, those of Unnamed without name
Unname(fs0, Unnamed) ==
    [f \in fs0 |-> IF f \in Unnamed THEN [FlowUniverse[f] EXCEPT !.name = ""]
                   ELSE FlowUniverse[f]]

InitLabel ==
    /\ \E fs1 \in Diagrams(LabelFamily), atype \in {"AND", "XOR"} :
          \E Unnamed \in SUBSET {f \in fs1 : FlowUniverse[f].source = "X"} :
             LET fs0 == fs1 \cup {f \in FlowIds : Edge(f) = <<"T2", "X">>}
             IN parse_elements(Unname(fs0, Unnamed), fs0, atype)
    /\ sop_rows = <<>>
    /\ sla_merges = <<>>
    /\ pc = "parsed"
    /\ InitApp
    /\ walk = NoWalk

SpecLabel == InitLabel /\ [][Next]_vars

\* diagrams around the start events, with tasks 1, 3 and "V" behind them
StartFamily ==
    {f \in DOMAIN FlowUniverse :
        Edge(f) \in {<<"S1", "T3">>, <<"S1", "X">>, <<"S2", "T1">>, <<"S2", "A">>,
                     <<"X", "T1">>, <<"X", "T3">>, <<"X", "A">>, <<"A", "T3">>,
                     <<"A", "X">>, <<"S1", "V">>, <<"S2", "V">>, <<"X", "V">>}}

SpecStart == InitWith(Diagrams(StartFamily), {"XOR"}) /\ [][Next]_vars

(***************************************************************************)
(* create_word_doc_from_template, lines 324-367: the SLA merge ranges of   *)
(* the step list.  Indices count from 1.                                   *)
(***************************************************************************)
\* the case rows behind the row left out of its range
GatewayRun_NoAbsorb(steps, j, merge_end) == [j |-> j, merge_end |-> merge_end]

RECURSIVE GatewayRun(_, _, _)
\* while j < len(steps) and steps[j].get('is_gateway'): merge_end = j; j += 1
GatewayRun(steps, j, merge_end) ==
    IF j <= Len(steps) /\ steps[j].is_gateway
    THEN GatewayRun(steps, j + 1, j)
    ELSE [j |-> j, merge_end |-> merge_end]

RECURSIVE GroupRun_AnyStep(_, _, _)
GroupRun_AnyStep(steps, at, sla_group) ==
    IF at.j <= Len(steps)
    THEN GroupRun_AnyStep(steps, GatewayRun(steps, at.j + 1, at.j), sla_group)
    ELSE at

RECURSIVE GroupRun(_, _, _)
\* while j < len(steps) and steps[j].get('sla_group') == sla_group: ...
GroupRun(steps, at, sla_group) ==
    IF at.j <= Len(steps) /\ steps[at.j].sla_group = sla_group
    THEN GroupRun(steps, GatewayRun(steps, at.j + 1, at.j), sla_group)
    ELSE at

RECURSIVE MergeScan(_, _, _)
\* the loop "while idx < len(steps)"
MergeScan(steps, idx, merges) ==
    IF idx > Len(steps) THEN merges
    ELSE LET sla == steps[idx].sla
             sla_group == steps[idx].sla_group
         IN IF sla # "" /\ sla_group = ""
            THEN LET at == GatewayRun(steps, idx + 1, idx)
                 IN MergeScan(steps, at.j,
                              Append(merges, [merge_start |-> idx, merge_end |-> at.merge_end,
                                              sla |-> sla]))
            ELSE IF sla_group # ""
            THEN LET at == GroupRun(steps, GatewayRun(steps, idx + 1, idx), sla_group)
                 IN MergeScan(steps, at.j,
                              Append(merges, [merge_start |-> idx, merge_end |-> at.merge_end,
                                              sla |-> sla]))
            ELSE MergeScan(steps, GatewayRun(steps, idx + 1, idx).j, merges)

compute_sla_merges(steps) == MergeScan(steps, 1, <<>>)

PlanSlaMerges ==
    /\ pc = "done"
    /\ sla_merges' = compute_sla_merges(sop_rows)
    /\ pc' = "planned"
    /\ UNCHANGED <<tables, sop_rows, app_state, walk>>

\* (sla, sla_group) as _get_task_sla returns them: none, the task's own SLA,
\* or the SLA of the group that contains the task
SlaKinds ==
    {<<"", "">>, <<"2 days", "">>, <<"5 days", "">>,
     <<"2 days", "Group_1">>, <<"5 days", "Group_2">>}

\* the rows of one task: its row and the case rows of its exclusive gateway
StepBlock(k, kind, cases) ==
    <<[ref |-> ToString(k), is_gateway |-> FALSE, sla |-> kind[1], sla_group |-> kind[2],
       raci |-> NoRaci, paragraphs |-> <<Para("Check " \o T(k), 12, TRUE)>>]>>
    \o [i \in 1..cases |->
          [ref |-> ToString(k) \o Letters[i], is_gateway |-> TRUE, sla |-> "",
           sla_group |-> "", raci |-> NoRaci,
           paragraphs |-> <<Para("Case " \o Letters[i] \o ": Yes", 12, TRUE)>>]]

\* the step lists of the diagrams with at most MaxSlaTasks numbered tasks
InitSla ==
    /\ parse_structure({}, "AND")
    /\ \E n \in 0..MaxSlaTasks :
          \E kind \in [1..n -> SlaKinds], cases \in [1..n -> 0..MaxCases] :
              sop_rows = Flatten([k \in 1..n |-> StepBlock(k, kind[k], cases[k])])
    /\ sla_merges = <<>>
    /\ pc = "done"
    /\ InitApp
    /\ walk = NoWalk

NextSla == PlanSlaMerges

SpecSla == InitSla /\ [][NextSla]_vars

InitTrace ==
    /\ \E fs \in Diagrams(TraceFamily) : parse_structure(fs, "AND")
    /\ sop_rows = <<>>
    /\ sla_merges = <<>>
    /\ pc = "parsed"
    /\ InitApp
    /\ walk \in OuterCalls

NextTrace == Enter \/ Iterate \/ Return

SpecTrace == InitTrace /\ [][NextTrace]_vars

(***************************************************************************)
(* The /generate route of backend/app.py.  The uploaded bytes either hold  *)
(* the diagram of the entity tables or are not well-formed XML, in which   *)
(* case etree.fromstring raises in BPMNParser.__init__.  The metadata of   *)
(* the form is represented by its process name.                            *)
(***************************************************************************)
\* the message of the XMLSyntaxError that lxml raises for the bytes "not xml"
XmlSyntaxError == "Start tag expected, '<' not found, line 1, column 1"

\* parse_bpmn_to_sop: the context handed to the caller; every exception is
\* caught and turned into a context with one ERROR step
parse_bpmn_to_sop(well_formed, process_name) ==
    IF well_formed
    THEN [process_name |-> process_name, steps |-> generate_sop_rows]
    ELSE [process_name |-> process_name,
          steps |-> <<[ref |-> "ERROR", is_gateway |-> FALSE,
                       paragraphs |-> <<Para("Parse error: " \o XmlSyntaxError, 11, FALSE)>>]>>]

\* create_word_doc_from_template: the rows of the process description table
\* of the rendered document, or NoDocument (None) when rendering raises
create_word_doc_from_template(context, template_ok) ==
    IF template_ok
    THEN [i \in DOMAIN context.steps |->
             [ref |-> context.steps[i].ref,
              paragraphs |-> context.steps[i].paragraphs,
              shaded |-> context.steps[i].is_gateway]]
    ELSE NoDocument

HistoryLimit == 50

\* metadata.get(key, default)
Get(metadata, key, default) == IF key \in DOMAIN metadata THEN metadata[key] ELSE default

\* lines 62-71: the entry made of the metadata; purpose and scope are read as
\* process_code is, references_list and general_policies_list as
\* abbreviations_list is
Entry(metadata, timestamp) ==
    [timestamp |-> timestamp,
     process_name |-> Get(metadata, "process_name", ""),
     process_code |-> Get(metadata, "process_code", ""),
     abbreviations_list |-> Get(metadata, "abbreviations_list", <<>>)]

\* {k: v for k, v in entry.items() if k != 'timestamp'}
without_timestamp(e) == [k \in DOMAIN e \ {"timestamp"} |-> e[k]]

add_entry_AlwaysInsert(hist, metadata, timestamp) ==
    LET inserted == <<Entry(metadata, timestamp)>> \o hist
    IN SubSeq(inserted, 1, IF Len(inserted) < HistoryLimit THEN Len(inserted) ELSE HistoryLimit)

\* HistoryManager.add_entry
add_entry(hist, metadata, timestamp) ==
    LET created == Entry(metadata, timestamp)
        same == {i \in DOMAIN hist :
                    without_timestamp(hist[i]) = without_timestamp(created)}
    IN IF same # {}
       THEN [hist EXCEPT ![CHOOSE i \in same : \A j \in same : i <= j].timestamp = timestamp]
       ELSE LET inserted == <<created>> \o hist
            IN SubSeq(inserted, 1,
                      IF Len(inserted) < HistoryLimit THEN Len(inserted) ELSE HistoryLimit)

\* HistoryManager.get_all
get_all(hist) == hist

ProcessNames == {"Onboarding", "Billing"}

\* generate_sop: parse, render, record the history entry, ask for the save
\* path, write and archive the document, answer
generate_sop ==
    /\ request.number < MaxRequests
    /\ \E well_formed \in BOOLEAN, process_name \in ProcessNames,
          template_ok \in BOOLEAN, save_path \in BOOLEAN :
          \E context \in {parse_bpmn_to_sop(well_formed, process_name)} :
          \E file_stream \in {create_word_doc_from_template(context, template_ok)} :
          LET number == request.number + 1
          IN /\ request' = [number |-> number, well_formed |-> well_formed,
                            process_name |-> process_name]
             /\ sop_rows' = context.steps
             /\ document' = file_stream
             /\ IF file_stream # NoDocument
                THEN /\ history' = add_entry(history, [process_name |-> process_name], number)
                     /\ entry' = Entry([process_name |-> process_name], number)
                     /\ IF save_path
                        THEN /\ archives' = Append(archives,
                                               [process_name |-> process_name,
                                                bpmn_well_formed |-> well_formed,
                                                docx |-> file_stream])
                             /\ response' = "success"
                        ELSE /\ archives' = archives
                             /\ response' = "Save cancelled"
                ELSE /\ UNCHANGED <<history, archives, entry>>
                     /\ response' = "500"
    /\ UNCHANGED <<tables, pc, sla_merges, walk, calls>>

RequestFamily ==
    {f \in FlowIds : Edge(f) \in {<<"T1", "T2">>, <<"T2", "T3">>, <<"T3", "E1">>,
                                  <<"T1", "X">>, <<"X", "T2">>, <<"X", "T3">>}}

NextRequest == generate_sop

SpecRequest == InitWith(Diagrams(RequestFamily), {"AND"}) /\ [][NextRequest]_vars

(***************************************************************************)
(* HistoryManager on its own: add_entry calls on a history that earlier    *)
(* add_entry calls have filled.  request.number counts the calls of the    *)
(* behaviour, entry is the entry the latest call created, and its          *)
(* timestamp is the reading of the clock at that call.                     *)
(***************************************************************************)
\* largest number of add_entry calls in one behaviour
MaxAdds == 3

\* the metadata of the k-th form: two process names with a code each
MetadataOf(k) ==
    [process_name |-> IF k % 2 = 1 THEN "Onboarding" ELSE "Billing",
     process_code |-> "SOP-" \o ToString((k + 1) \div 2),
     abbreviations_list |-> IF k % 3 = 0 THEN <<"SOP">> ELSE <<>>]

\* the history after add_entry(MetadataOf(1)), ..., add_entry(MetadataOf(n))
\* on an empty history, the clock reading k at the k-th call: the metadata
\* differ from each other, so that every call inserts its entry at index 0
AddedAll(n) == [i \in 1..n |-> Entry(MetadataOf(n + 1 - i), n + 1 - i)]

\* the numbers of entries stored before the behaviour starts
StoredCounts == {0, 1, 2, HistoryLimit - 1, HistoryLimit}

\* the metadata handed to add_entry: stored early or late, not stored, without
\* the keys that add_entry reads with a default, and for k = 0 equal to no
\* stored entry but in its abbreviations
AddInputs ==
    {MetadataOf(1), MetadataOf(2), MetadataOf(HistoryLimit),
     MetadataOf(HistoryLimit + 1),
     [process_name |-> "Onboarding"],
     [MetadataOf(1) EXCEPT !.abbreviations_list = <<"SOP">>]}

InitHistory ==
    /\ parse_structure({}, "AND")
    /\ sop_rows = <<>>
    /\ sla_merges = <<>>
    /\ pc = "parsed"
    /\ request = NoRequest
    /\ \E n \in StoredCounts :
          /\ history = AddedAll(n)
          /\ entry = IF n = 0 THEN NoEntry ELSE Entry(MetadataOf(n), n)
    /\ archives = <<>>
    /\ document = NoDocument
    /\ response = "none"
    /\ calls = NoCalls
    /\ walk = NoWalk

\* one call of add_entry; datetime.now() does not go back between two calls
AddEntry ==
    /\ request.number < MaxAdds
    /\ \E metadata \in AddInputs, timestamp \in entry.timestamp .. (entry.timestamp + 1) :
          /\ history' = add_entry(history, metadata, timestamp)
          /\ entry' = Entry(metadata, timestamp)
    /\ request' = [request EXCEPT !.number = @ + 1]
    /\ UNCHANGED <<tables, sop_rows, pc, sla_merges, archives, document, response,
                   calls, walk>>

NextHistory == AddEntry

SpecHistory == InitHistory /\ [][NextHistory]_vars

(***************************************************************************)
(* Two invocations of parse_bpmn_to_sop at once, each on its own document. *)
(* calls.heap holds the BPMNParser instances (their entity tables),        *)
(* calls.frames the locals of each invocation: its XML input, its position *)
(* in parse_bpmn_to_sop / generate_sop_rows, the tasks still to render,    *)
(* its local list sop_rows and the context it returns.  The documents have *)
(* tasks T1..T3, the end events and flows between them; a row is reduced   *)
(* to its ref, its title and its routing sentences.                        *)
(***************************************************************************)
Callers == {1, 2}

\* largest number of sequence flows in a document parsed concurrently
MaxCallFlows == 2

CallFamily ==
    {f \in FlowIds : Edge(f) \in {<<"T1", "T2">>, <<"T1", "T3">>, <<"T2", "T3">>,
                                  <<"T2", "T1">>, <<"T2", "E1">>, <<"T3", "E2">>}}

CallInputs == SubsetsUpTo(CallFamily, MaxCallFlows)

\* BPMNParser(xml_content): the tables of a freshly constructed instance
ParseTables(fs0) ==
    LET fs == [f \in fs0 |-> FlowUniverse[f]]
    IN [tasks |-> [id \in TaskIdsOf(fs) |->
                     [number |-> TaskNumber(id),
                      label |-> "Check " \o id,
                      outgoing |-> OutgoingOf(fs, id)]],
        flows |-> fs]

\* parser = BPMNParser(xml_content): every invocation constructs an instance
\* of its own
instance_of_Shared(p) == 1
instance_of(p) == p

\* lines 1044-1047 on the tables tbl
SortedTasksIn(tbl) ==
    LET numbered == Filter(TaskOrder, LAMBDA id : id \in DOMAIN tbl.tasks
                                                   /\ tbl.tasks[id].number # NoNumber)
        keyed == [i \in DOMAIN numbered |->
                     [task_id |-> numbered[i],
                      sort_key |-> <<tbl.tasks[numbered[i]].number, 0>>]]
        sorted == SortBySortKey(keyed)
    IN [i \in DOMAIN sorted |-> sorted[i].task_id]

\* _get_target_step_numbers on the tables tbl: the task targets (step
\* numbers) and the end targets (names) of the task
TaskTargetsIn(tbl, task_id) ==
    LET out == Filter(tbl.tasks[task_id].outgoing,
                      LAMBDA f : f \in DOMAIN tbl.flows
                                 /\ tbl.flows[f].target \in DOMAIN tbl.tasks)
    IN [i \in DOMAIN out |-> tbl.tasks[tbl.flows[out[i]].target].number]

EndTargetsIn(tbl, task_id) ==
    LET out == Filter(tbl.tasks[task_id].outgoing,
                      LAMBDA f : f \in DOMAIN tbl.flows
                                 /\ tbl.flows[f].target \in {"E1", "E2"})
    IN [i \in DOMAIN out |->
           IF EventName(tbl.flows[out[i]].target) # ""
           THEN EventName(tbl.flows[out[i]].target) ELSE "Process Complete"]

\* one iteration of the loop of generate_sop_rows on the tables tbl: lines
\* 1127-1135 and 1174-1178 (revert), 1336-1342 (end), 1345-1359 (fan-out)
RowIn(tbl, task_id) ==
    LET step_num == tbl.tasks[task_id].number
        task_targets == TaskTargetsIn(tbl, task_id)
        end_targets == EndTargetsIn(tbl, task_id)
        back == Filter(task_targets, LAMBDA k : k < step_num)
    IN [ref |-> ToString(step_num),
        title |-> tbl.tasks[task_id].label,
        routing |->
            (IF back # <<>> THEN <<"Revert to Step " \o ToString(back[1])>> ELSE <<>>)
            \o (IF Len(task_targets) = 0 /\ Len(end_targets) = 1
                THEN <<"Process Ends (" \o end_targets[1] \o ")">>
                ELSE IF Len(task_targets) > 1 /\ Len(end_targets) = 0
                THEN <<"Proceed to Step " \o Join(SortedInts(task_targets), " and Step ")>>
                ELSE <<>>)]

\* parse_bpmn_to_sop run alone on a document: the steps of its context
RunAlone(fs0) ==
    LET tbl == ParseTables(fs0)
        todo == SortedTasksIn(tbl)
    IN [i \in DOMAIN todo |-> RowIn(tbl, todo[i])]

NoTables == [tasks |-> [id \in {} |-> 0], flows |-> [f \in {} |-> 0]]

InitCalls ==
    /\ parse_structure({}, "AND")
    /\ sop_rows = <<>>
    /\ sla_merges = <<>>
    /\ pc = "parsed"
    /\ request = NoRequest
    /\ history = <<>>
    /\ entry = NoEntry
    /\ archives = <<>>
    /\ document = NoDocument
    /\ response = "none"
    /\ walk = NoWalk
    /\ \E xml \in [Callers -> CallInputs] :
          calls = [heap |-> [i \in Callers |-> NoTables],
                   frames |-> [p \in Callers |->
                                  [xml |-> xml[p], pc |-> "start", todo |-> <<>>,
                                   sop_rows |-> <<>>, steps |-> <<>>]]]

OthersUnchanged ==
    UNCHANGED <<tables, sop_rows, pc, sla_merges, request, history, entry, archives,
                document, response, walk>>

\* line 1937, parser = BPMNParser(xml_content)
CallConstruct(p) ==
    /\ calls.frames[p].pc = "start"
    /\ calls' = [calls EXCEPT !.heap[instance_of(p)] = ParseTables(calls.frames[p].xml),
                              !.frames[p].pc = "parsed"]
    /\ OthersUnchanged

\* lines 1041-1047, sop_rows = [] and the sorted tasks
CallSort(p) ==
    /\ calls.frames[p].pc = "parsed"
    /\ calls' = [calls EXCEPT !.frames[p].todo = SortedTasksIn(calls.heap[instance_of(p)]),
                              !.frames[p].sop_rows = <<>>,
                              !.frames[p].pc = "rows"]
    /\ OthersUnchanged

\* one iteration of the loop over the sorted tasks
CallRow(p) ==
    /\ calls.frames[p].pc = "rows"
    /\ calls.frames[p].todo # <<>>
    /\ calls' = [calls EXCEPT
                    !.frames[p].sop_rows =
                        Append(@, RowIn(calls.heap[instance_of(p)], Head(calls.frames[p].todo))),
                    !.frames[p].todo = Tail(@)]
    /\ OthersUnchanged

\* lines 1361 and 1944-1962, the context with 'steps': sop_rows
CallReturn(p) ==
    /\ calls.frames[p].pc = "rows"
    /\ calls.frames[p].todo = <<>>
    /\ calls' = [calls EXCEPT !.frames[p].steps = calls.frames[p].sop_rows,
                              !.frames[p].pc = "returned"]
    /\ OthersUnchanged

NextCalls ==
    \E p \in Callers : CallConstruct(p) \/ CallSort(p) \/ CallRow(p) \/ CallReturn(p)

SpecCalls == InitCalls /\ [][NextCalls]_vars

(***************************************************************************)
(* What the generated rows show.                                           *)
(***************************************************************************)
Done == pc = "done"

NumberedTasks == {t \in DOMAIN tasks : tasks[t].number # NoNumber}

\* int(ref) of a task row
RefNumber(ref) == CHOOSE n \in 0..MaxStep : ToString(n) = ref

TaskRows == Filter(sop_rows, LAMBDA r : ~r.is_gateway)

\* the place of task t among the numbered tasks sorted by step number, tasks
\* of equal number staying in document order
TaskPosition(t) ==
    LET DocIndex(u) == CHOOSE k \in DOMAIN TaskOrder : TaskOrder[k] = u
    IN 1 + Cardinality({u \in NumberedTasks :
                           \/ tasks[u].number < tasks[t].number
                           \/ /\ tasks[u].number = tasks[t].number
                              /\ DocIndex(u) < DocIndex(t)})

\* the index of the row of task t: the TaskPosition(t)-th task row
TaskRowIndices(t) ==
    {i \in DOMAIN sop_rows :
        /\ ~sop_rows[i].is_gateway
        /\ Cardinality({j \in 1..i : ~sop_rows[j].is_gateway}) = TaskPosition(t)}

\* the case rows that directly follow row i
CaseRowsAfter(i) ==
    LET run == {j \in DOMAIN sop_rows :
                   j > i /\ \A k \in (i + 1)..j : sop_rows[k].is_gateway}
    IN [k \in 1..Cardinality(run) |-> sop_rows[i + k]]

LastText(row) == row.paragraphs[Len(row.paragraphs)].text

\* C1 (as claimed): the task rows carry strictly increasing step numbers,
\* one row per numbered task, no ref twice, none for an unnumbered task.
C1_StrictlyIncreasingRefs ==
    Done =>
        /\ \A i, j \in DOMAIN TaskRows :
              i < j => RefNumber(TaskRows[i].ref) < RefNumber(TaskRows[j].ref)
        /\ {TaskRows[i].ref : i \in DOMAIN TaskRows}
              = {ToString(tasks[t].number) : t \in NumberedTasks}
        /\ Len(TaskRows) = Cardinality(NumberedTasks)

\* C1: a diagram with two tasks of the same step number has been generated
C1_DuplicateStepGenerated ==
    /\ Done
    /\ \E t, u \in NumberedTasks : t # u /\ tasks[t].number = tasks[u].number
    /\ Len(TaskRows) = Cardinality(NumberedTasks)

\* the task has exactly one outgoing flow, and it leads to an exclusive gateway
SoleXorSuccessor(t, g) ==
    /\ Len(tasks[t].outgoing) = 1
    /\ flows[tasks[t].outgoing[1]].target = g
    /\ g \in DOMAIN gateways
    /\ gateways[g].type = "XOR"

FlowTargets(g) == [i \in DOMAIN gateways[g].outgoing |-> flows[gateways[g].outgoing[i]].target]

\* the flow target is a numbered task, an end event or a subprocess
IsDirectDestination(id) ==
    \/ id \in NumberedTasks
    \/ id \in DOMAIN events /\ events[id].type = "end"
    \/ id \in DOMAIN subprocesses

\* the flow target is a gateway or an intermediate event
IsHop(id) ==
    \/ id \in DOMAIN gateways
    \/ id \in DOMAIN events /\ events[id].type = "intermediate"

LetteredFromA(rows, step) ==
    \A k \in DOMAIN rows : rows[k].is_gateway /\ rows[k].ref = ToString(step) \o Letters[k]

\* C2 (as claimed): a task whose sole successor is an exclusive split with N
\* outgoing flows is followed by exactly N case rows lettered A, B, ...
C2_OneRowPerFlow ==
    Done =>
        \A t \in NumberedTasks, g \in DOMAIN gateways :
            SoleXorSuccessor(t, g) /\ Len(gateways[g].outgoing) >= 2 =>
                \A i \in TaskRowIndices(t) :
                    /\ Len(CaseRowsAfter(i)) = Len(gateways[g].outgoing)
                    /\ LetteredFromA(CaseRowsAfter(i), tasks[t].number)

\* C2 (amended): the case rows of such a task are lettered consecutively from
\* A, and when no outgoing flow of the gateway leads to a further gateway or
\* an intermediate event there is exactly one row per flow that leads to a
\* numbered task, an end event or a subprocess (a flow to an unnumbered task
\* yields none).
C2_OneRowPerResolvedCase ==
    Done =>
        \A t \in NumberedTasks, g \in DOMAIN gateways :
            SoleXorSuccessor(t, g) =>
                \A i \in TaskRowIndices(t) :
                    /\ LetteredFromA(CaseRowsAfter(i), tasks[t].number)
                    /\ (\A k \in DOMAIN FlowTargets(g) : ~IsHop(FlowTargets(g)[k]))
                        => Len(CaseRowsAfter(i))
                             = Cardinality({k \in DOMAIN FlowTargets(g) :
                                               IsDirectDestination(FlowTargets(g)[k])})

\* C2: an exclusive split with three direct flows, one of them to an
\* unnumbered task, has produced the two rows <step>A and <step>B
C2_SplitWithDroppedFlow ==
    /\ Done
    /\ \E t \in NumberedTasks, g \in DOMAIN gateways :
          /\ SoleXorSuccessor(t, g)
          /\ Len(gateways[g].outgoing) = 3
          /\ \A k \in DOMAIN FlowTargets(g) : ~IsHop(FlowTargets(g)[k])
          /\ \E i \in TaskRowIndices(t) :
                /\ Len(CaseRowsAfter(i)) = 2
                /\ CaseRowsAfter(i)[2].ref = ToString(tasks[t].number) \o "B"

(***************************************************************************)
(* Reading a case row: its routing sentence is its last paragraph.         *)
(***************************************************************************)
EndNames == {events[e].name : e \in {e \in DOMAIN events : events[e].type = "end"}}
              \cup {"Process Complete"}

\* what may precede "Revert to Step k" / "Proceed to Step k" in a routing sentence
TaskRoutingPrefixes ==
    {"", "Start Billing Process, then ", "Wait until Reply Then ",
     "Wait until Reply Then Start Billing Process, then "}

\* what may precede "Process Ends (name)" in a routing sentence
EndRoutingPrefixes ==
    {"", "Start Billing Process, then ", "Wait until Reply, then ",
     "Wait until Reply Then Start Billing Process, then "}

EndsProcess(row) ==
    \E n \in EndNames, p \in EndRoutingPrefixes :
        LastText(row) = p \o "Process Ends (" \o n \o ")"

RevertsTo(row, k) ==
    \E p \in TaskRoutingPrefixes : LastText(row) = p \o "Revert to Step " \o ToString(k)

ProceedsTo(row, k) ==
    \E p \in TaskRoutingPrefixes : LastText(row) = p \o "Proceed to Step " \o ToString(k)

IsRevert(row) == \E k \in 1..MaxStep : RevertsTo(row, k)

IsProceed(row) == \E k \in 1..MaxStep : ProceedsTo(row, k)

\* the runs of case rows that follow the tasks whose sole successor is an
\* exclusive gateway, each with the step number of its task
CaseRuns ==
    {[step |-> tasks[t].number, gateway |-> g, rows |-> CaseRowsAfter(i)] :
        <<t, g, i>> \in {x \in NumberedTasks \X (DOMAIN gateways) \X (DOMAIN sop_rows) :
                            SoleXorSuccessor(x[1], x[2]) /\ x[3] \in TaskRowIndices(x[1])}}

\* C3 (as claimed): among the case rows of one exclusive split, the cases that
\* end the process come first, then the reverts in ascending order of target,
\* then the proceeds in descending order of target.
C3_EndsRevertsProceeds ==
    Done =>
        \A run \in CaseRuns : \A a, b \in DOMAIN run.rows :
            a < b =>
                /\ EndsProcess(run.rows[b]) => ~IsRevert(run.rows[a]) /\ ~IsProceed(run.rows[a])
                /\ IsRevert(run.rows[b]) => ~IsProceed(run.rows[a])
                /\ \A k, l \in 1..MaxStep :
                      /\ RevertsTo(run.rows[a], k) /\ RevertsTo(run.rows[b], l) => k <= l
                      /\ ProceedsTo(run.rows[a], k) /\ ProceedsTo(run.rows[b], l) => k >= l

\* C3: a case that starts a subprocess and then ends the process has been
\* lettered after a proceed case
C3_SubprocessEndAfterProceed ==
    /\ Done
    /\ \E run \in CaseRuns : \E a, b \in DOMAIN run.rows :
          /\ a < b
          /\ IsProceed(run.rows[a])
          /\ LastText(run.rows[b]) = "Start Billing Process, then Process Ends (Done)"

\* C4: a flow of the exclusive gateway that leads directly to numbered task k
\* yields a case "Revert to Step k" iff k <= parent step and "Proceed to Step k"
\* iff k > parent step; the case of a flow back to the parent step itself is
\* a revert and is lettered before every proceed case of that gateway.
C4_RevertIffNotAfterParent ==
    Done =>
        \A run \in CaseRuns :
            /\ \A f \in Range(gateways[run.gateway].outgoing) :
                  flows[f].target \in NumberedTasks =>
                      LET k == tasks[flows[f].target].number
                          name == OrDefault(flows[f].name, "[CONDITION UNLABELED]")
                      IN \E a \in DOMAIN run.rows :
                            /\ run.rows[a].paragraphs[1].text
                                 = "Case " \o Letters[a] \o ": " \o name
                            /\ LastText(run.rows[a])
                                 = (IF k <= run.step THEN "Revert to Step " ELSE "Proceed to Step ")
                                   \o ToString(k)
            /\ (\A f \in Range(gateways[run.gateway].outgoing) : ~IsHop(flows[f].target))
                  => \A a \in DOMAIN run.rows, k \in 1..MaxStep :
                        /\ LastText(run.rows[a]) = "Revert to Step " \o ToString(k)
                              => k <= run.step
                        /\ LastText(run.rows[a]) = "Proceed to Step " \o ToString(k)
                              => k > run.step
            /\ \A a, b \in DOMAIN run.rows :
                  /\ LastText(run.rows[a]) = "Revert to Step " \o ToString(run.step)
                  /\ IsProceed(run.rows[b])
                  => a < b

\* C4: an exclusive split with a flow back to its own parent step and a
\* forward flow has produced "Revert to Step <parent>" before the proceed case
C4_SelfLoopBeforeProceed ==
    /\ Done
    /\ \E run \in CaseRuns : \E a, b \in DOMAIN run.rows :
          /\ a < b
          /\ LastText(run.rows[a]) = "Revert to Step " \o ToString(run.step)
          /\ LastText(run.rows[b]) = "Proceed to Step " \o ToString(run.step + 1)

(***************************************************************************)
(* The inputs of a task, stated on the graph.                              *)
(***************************************************************************)
IncomingOfElement(e) ==
    IF e \in DOMAIN tasks THEN tasks[e].incoming
    ELSE IF e \in DOMAIN gateways THEN gateways[e].incoming
    ELSE IF e \in DOMAIN events THEN events[e].incoming
    ELSE IF e \in DOMAIN subprocesses THEN subprocesses[e].incoming
    ELSE <<>>

SourcesOf(e) == {flows[f].source : f \in Range(IncomingOfElement(e)) \cap DOMAIN flows}

IsNumberedTask(e) == e \in DOMAIN tasks /\ tasks[e].number # NoNumber

RECURSIVE BackwardClosure(_, _)
\* the elements reached backwards from the set S, passing only through Through
BackwardClosure(S, Through) ==
    LET N == S \cup UNION {SourcesOf(e) : e \in S \cap Through}
    IN IF N = S THEN S ELSE BackwardClosure(N, Through)

\* what a backward search from the task meets before it passes a task or a
\* start event
InputsOf(t) ==
    BackwardClosure(SourcesOf(t),
                    DOMAIN gateways \cup DOMAIN subprocesses
                      \cup {e \in DOMAIN events : events[e].type # "start"})

\* (b) a forward predecessor step and a start event both reach the task
HasStepAndTrigger(t) ==
    /\ \E e \in InputsOf(t) : IsNumberedTask(e) /\ tasks[e].number < tasks[t].number
    /\ \E e \in InputsOf(t) : e \in DOMAIN events /\ events[e].type = "start"

JoinPredecessorFlows(t) ==
    {f \in Range(tasks[t].incoming) \cap DOMAIN flows :
        /\ flows[f].source \in DOMAIN gateways
        /\ gateways[flows[f].source].type \in {"AND", "OR"}}

\* the flow into a join gateway has a traceable task source
HasTaskSource(f) ==
    \/ IsNumberedTask(flows[f].source)
    \/ /\ flows[f].source \in DOMAIN gateways
       /\ \E e \in BackwardClosure({flows[f].source}, DOMAIN gateways) : IsNumberedTask(e)

\* (a) the AND/OR gateways directly in front of the task have at least two
\* incoming flows with a traceable task source
HasJoinWithTwoSources(t) ==
    Cardinality({<<f, h>> \in JoinPredecessorFlows(t) \X FlowIds :
                    /\ h \in Range(gateways[flows[f].source].incoming) \cap DOMAIN flows
                    /\ HasTaskSource(h)}) >= 2

IsSplitGateway(e) ==
    /\ e \in DOMAIN gateways
    /\ Len(gateways[e].incoming) = 1
    /\ Len(gateways[e].outgoing) > 1

RECURSIVE OriginIsXorSplit(_, _)
\* following single incoming flows backwards from e, through tasks and
\* gateways, the first split gateway met is exclusive (n bounds the walk)
OriginIsXorSplit(e, n) ==
    IF n = 0 THEN FALSE
    ELSE IF IsSplitGateway(e) THEN gateways[e].type = "XOR"
    ELSE /\ e \in DOMAIN tasks \cup DOMAIN gateways
         /\ Len(IncomingOfElement(e)) = 1
         /\ IncomingOfElement(e)[1] \in DOMAIN flows
         /\ OriginIsXorSplit(flows[IncomingOfElement(e)[1]].source, n - 1)

\* an incoming flow of the task comes from, or is traced back to, an exclusive gateway
TracesToXor(t) ==
    \E s \in SourcesOf(t) :
        \/ s \in DOMAIN gateways /\ gateways[s].type = "XOR"
        \/ OriginIsXorSplit(s, Cardinality(DOMAIN tasks \cup DOMAIN gateways) + 1)

\* (c) several numbered tasks lead directly into the task, no gateway involved
HasTwoDirectTaskSources(t) ==
    /\ JoinPredecessorFlows(t) = {}
    /\ ~TracesToXor(t)
    /\ Cardinality({f \in Range(tasks[t].incoming) \cap DOMAIN flows :
                       IsNumberedTask(flows[f].source)}) >= 2

TitleOf(t) == sop_rows[CHOOSE i \in TaskRowIndices(t) : TRUE].paragraphs[1].text

HasStepInput(t) == TitleOf(t) # tasks[t].label

\* the titles "<label> Step Input: Step a and Step b ..." (or "and/or")
JoinTitles(t) ==
    {tasks[t].label \o " Step Input: Step " \o Join(SetToSeq(S), sep) :
        S \in SUBSET (1..MaxStep) \ {{}}, sep \in {" and Step ", " and/or Step "}}

\* C5 (as claimed): the title carries "Step Input:" iff (a) or (b), and never
\* when every incoming flow traces back to exclusive splits only.
C5_StepInputIffJoinOrTrigger ==
    Done =>
        \A t \in NumberedTasks :
            /\ HasStepInput(t) <=> (HasJoinWithTwoSources(t) \/ HasStepAndTrigger(t))
            /\ (/\ SourcesOf(t) # {}
                /\ \A s \in SourcesOf(t) :
                      OriginIsXorSplit(s, Cardinality(DOMAIN tasks \cup DOMAIN gateways) + 1))
                  => ~HasStepInput(t)

\* C5 (amended): the title carries "Step Input:" iff (a) the AND/OR gateways
\* directly in front of the task have at least two traceable task sources,
\* or (b) a forward predecessor step and a start event both reach the task,
\* or (c) at least two numbered tasks lead directly into the task, no AND/OR
\* gateway is directly in front of it and no incoming flow comes from or
\* traces back to an exclusive gateway; when an incoming flow does (and no
\* AND/OR gateway is directly in front), only the step-and-trigger form appears.
C5_StepInputIffJoinTriggerOrDirect ==
    Done =>
        \A t \in NumberedTasks :
            /\ HasStepInput(t) <=> \/ HasJoinWithTwoSources(t)
                                   \/ HasStepAndTrigger(t)
                                   \/ HasTwoDirectTaskSources(t)
            /\ TracesToXor(t) /\ JoinPredecessorFlows(t) = {} /\ HasStepInput(t)
                  => HasStepAndTrigger(t) /\ TitleOf(t) \notin JoinTitles(t)

\* C5: a task fed directly by two numbered tasks, with neither a join gateway
\* nor a start event in front of it, carries "Step Input: Step 1 and Step 2"
C5_DirectSourcesTitled ==
    /\ Done
    /\ \E t \in NumberedTasks :
          /\ HasTwoDirectTaskSources(t)
          /\ ~HasStepAndTrigger(t)
          /\ TitleOf(t) = tasks[t].label \o " Step Input: Step 1 and Step 2"

(***************************************************************************)
(* The SLA merge ranges.                                                   *)
(***************************************************************************)
Planned == pc = "planned"

OwnSlaRow(i) ==
    /\ ~sop_rows[i].is_gateway
    /\ sop_rows[i].sla # ""
    /\ sop_rows[i].sla_group = ""

\* the last of the case rows that directly follow row i (i itself when none does)
LastCaseRowAfter(i) == i + Len(CaseRowsAfter(i))

\* C6: the merge ranges are index intervals inside the step list, emitted in
\* increasing order without overlap; every task row with its own SLA and no
\* group starts a range, and that range ends exactly at the last case row
\* that directly follows the task row.
C6_MergeRangesDisjointAndAbsorbing ==
    Planned =>
        /\ \A m \in DOMAIN sla_merges :
              /\ 1 <= sla_merges[m].merge_start
              /\ sla_merges[m].merge_start <= sla_merges[m].merge_end
              /\ sla_merges[m].merge_end <= Len(sop_rows)
              /\ m > 1 => sla_merges[m].merge_start > sla_merges[m - 1].merge_end
        /\ \A i \in DOMAIN sop_rows :
              OwnSlaRow(i) =>
                  \E m \in DOMAIN sla_merges :
                      /\ sla_merges[m].merge_start = i
                      /\ sla_merges[m].merge_end = LastCaseRowAfter(i)
                      /\ sla_merges[m].sla = sop_rows[i].sla
        /\ \A m \in DOMAIN sla_merges :
              OwnSlaRow(sla_merges[m].merge_start)
                  => sla_merges[m].merge_end = LastCaseRowAfter(sla_merges[m].merge_start)

\* C6: a task row with its own SLA followed by two case rows has got the
\* range over the three rows, and a later range follows it
C6_OwnSlaAbsorbsCases ==
    /\ Planned
    /\ \E m \in DOMAIN sla_merges :
          /\ OwnSlaRow(sla_merges[m].merge_start)
          /\ sla_merges[m].merge_end = sla_merges[m].merge_start + 2
          /\ m < Len(sla_merges)

(***************************************************************************)
(* The routing sentence at the end of a task row.                          *)
(***************************************************************************)
RowOf(t) == sop_rows[CHOOSE i \in TaskRowIndices(t) : TRUE]

EndEvents == {e \in DOMAIN events : events[e].type = "end"}

EndNameOf(e) == IF events[e].name # "" THEN events[e].name ELSE "Process Complete"

\* the only outgoing flow of the task leads to the end event e
SoleEndSuccessor(t, e) ==
    /\ Len(tasks[t].outgoing) = 1
    /\ e \in EndEvents
    /\ flows[tasks[t].outgoing[1]].target = e

\* the diagram is Start -> Task 1 -> Task 2 -> Task 3 -> End and nothing else
IsLinearProcess ==
    {Edge(f) : f \in DOMAIN flows}
        = {<<"S2", "T1">>, <<"T1", "T2">>, <<"T2", "T3">>, <<"T3", "E2">>}

\* C7: the row of a numbered task whose only outgoing flow leads to an end
\* event ends with "Process Ends (<name>)", the name being "Process Complete"
\* for an unnamed end event; the linear process of three tasks yields exactly
\* the rows 1, 2, 3, of which only the third ends with that paragraph.
C7_ProcessEndsParagraph ==
    Done =>
        /\ \A t \in NumberedTasks, e \in EndEvents :
              SoleEndSuccessor(t, e)
                  => LastText(RowOf(t)) = "Process Ends (" \o EndNameOf(e) \o ")"
        /\ IsLinearProcess =>
              /\ [i \in DOMAIN sop_rows |-> sop_rows[i].ref] = <<"1", "2", "3">>
              /\ \A i \in DOMAIN sop_rows : ~sop_rows[i].is_gateway
              /\ LastText(sop_rows[3]) = "Process Ends (Process Complete)"
              /\ \A i \in {1, 2} : ~EndsProcess(sop_rows[i])

\* C7: the linear process has been generated and its third row ends with
\* "Process Ends (Process Complete)"
C7_LinearProcessGenerated ==
    /\ Done
    /\ IsLinearProcess
    /\ Len(sop_rows) = 3
    /\ LastText(sop_rows[3]) = "Process Ends (Process Complete)"

(***************************************************************************)
(* Tasks in front of a join gateway that leads to an end event.            *)
(***************************************************************************)
\* the numbered tasks with a flow into gateway g
FeedingTasks(g) ==
    {t \in NumberedTasks : \E f \in Range(tasks[t].outgoing) : flows[f].target = g}

GatewayTargets(g) == {flows[f].target : f \in Range(gateways[g].outgoing) \cap DOMAIN flows}

\* an AND/OR gateway fed by two or more numbered tasks, followed by an end
\* event and by no task
IsJoinBeforeEnd(g) ==
    /\ gateways[g].type \in {"AND", "OR"}
    /\ Cardinality(FeedingTasks(g)) >= 2
    /\ GatewayTargets(g) \cap EndEvents # {}
    /\ GatewayTargets(g) \cap DOMAIN tasks = {}

WaitText(S, end_name) ==
    "Wait until step " \o Join(SetToSeq(S), " and step ")
    \o " completed then Process Ends (" \o end_name \o ")"

\* C8 (as claimed): each numbered task feeding such a join has a row that
\* ends with "Wait until step <others> completed then Process Ends (<name>)",
\* which lists the step of every other feeding task and not the task's own
\* step, and no case row follows it.
C8_WaitForOtherBranches ==
    Done =>
        \A g \in DOMAIN gateways : IsJoinBeforeEnd(g) =>
            \A t \in FeedingTasks(g) : \A i \in TaskRowIndices(t) :
                /\ CaseRowsAfter(i) = <<>>
                /\ \E S \in SUBSET (1..MaxStep), e \in GatewayTargets(g) \cap EndEvents :
                      /\ {tasks[u].number : u \in FeedingTasks(g) \ {t}} \subseteq S
                      /\ tasks[t].number \in S
                            => \E u \in FeedingTasks(g) \ {t} : tasks[u].number = tasks[t].number
                      /\ LastText(sop_rows[i]) = WaitText(S, EndNameOf(e))

\* C8: two tasks feed a join that leads to the end event "Done", and the row
\* of the first reads "Wait until step <other> completed then Process Ends (Done)"
C8_ParallelBranchesToEnd ==
    /\ Done
    /\ \E g \in DOMAIN gateways : \E t, u \in FeedingTasks(g) :
          /\ IsJoinBeforeEnd(g)
          /\ FeedingTasks(g) = {t, u} /\ t # u
          /\ \A i \in TaskRowIndices(t) :
                LastText(sop_rows[i]) = WaitText({tasks[u].number}, "Done")

\* C8: a feeding task that also reaches the join through another gateway
\* lists its own step among the steps to wait for
C8_OwnStepListed ==
    /\ Done
    /\ \E g \in DOMAIN gateways : \E t \in FeedingTasks(g) :
          /\ IsJoinBeforeEnd(g)
          /\ \A u \in FeedingTasks(g) \ {t} : tasks[u].number # tasks[t].number
          /\ \E S \in SUBSET (1..MaxStep) : \A i \in TaskRowIndices(t) :
                /\ tasks[t].number \in S
                /\ LastText(sop_rows[i]) = WaitText(S, "Done")

(***************************************************************************)
(* Termination of the graph traversals.                                    *)
(***************************************************************************)
Returned == walk.status = "returned"

NoElementExpandedTwice ==
    \A i, j \in DOMAIN walk.expanded : walk.expanded[i] = walk.expanded[j] => i = j

\* C9: every traversal the parser starts returns: it is never stuck before
\* it has returned, it takes at most 4 * (number of flows) + 3 steps, and no
\* element is expanded twice by it, because a call on an element already in
\* the visited set returns "no result" at once.
C9_TraversalsTerminate ==
    /\ NoElementExpandedTwice
    /\ walk.steps <= 4 * Cardinality(DOMAIN flows) + 3
    /\ Returned \/ CanEnter \/ CanIterate \/ CanReturn

\* C9: a traversal has returned after it came back, around a cycle of the
\* diagram, to an element whose call was still running
C9_CycleCut ==
    /\ Returned
    /\ walk.met_on_stack # {}
    /\ Len(walk.expanded) >= 2

(***************************************************************************)
(* Requests that carry bytes which are not well-formed XML.                *)
(***************************************************************************)
Requested == request.number > 0

\* C10 (as claimed): after a /generate request whose XML is not well-formed
\* the context carries no step rows, no document is rendered, the response is
\* the error response and no history entry was recorded by the request.
C10_MalformedAborts ==
    (Requested /\ ~request.well_formed) =>
        /\ sop_rows = <<>>
        /\ document = NoDocument
        /\ response = "500"
        /\ \A i \in DOMAIN history : history[i].timestamp # request.number

\* C10: a request with malformed XML was answered with success, after a
\* document with the single row ERROR was rendered and archived and a history
\* entry was recorded
C10_MalformedRendered ==
    /\ Requested /\ ~request.well_formed
    /\ Len(sop_rows) = 1 /\ sop_rows[1].ref = "ERROR"
    /\ Len(document) = 1 /\ document[1].ref = "ERROR"
    /\ response = "success"
    /\ \E i \in DOMAIN history : history[i].timestamp = request.number
    /\ archives # <<>> /\ ~archives[Len(archives)].bpmn_well_formed

(***************************************************************************)
(* Dangling flows.                                                         *)
(***************************************************************************)
KnownElements ==
    DOMAIN tasks \cup DOMAIN gateways \cup DOMAIN subprocesses \cup DOMAIN events

IsDangling(f) ==
    \/ f \notin DOMAIN flows
    \/ flows[f].source \notin KnownElements
    \/ flows[f].target \notin KnownElements

LiveOutgoing(e) == {f \in Range(OutgoingFlowIds(e)) : ~IsDangling(f)}

LiveIncoming(e) == {f \in Range(IncomingOfElement(e)) : ~IsDangling(f)}

\* the only flow of task t that is not dangling leads to the exclusive gateway g
SoleLiveXorSuccessor(t, g) ==
    /\ g \in DOMAIN gateways
    /\ gateways[g].type = "XOR"
    /\ Cardinality(LiveOutgoing(t)) = 1
    /\ \A f \in LiveOutgoing(t) : flows[f].target = g

\* the numbers of the tasks from which flows of the flow table lead to task t
\* without passing another task
LiveInputSteps(t) == {tasks[e].number : e \in {u \in InputsOf(t) : IsNumberedTask(u)}}

\* the titles "<label> Step Input: Step a <sep> b ... [or Input k ...]" over
\* the steps of the set Steps
StepInputTitles(t, Steps) ==
    {tasks[t].label \o " Step Input: Step " \o Join(SetToSeq(S), sep)
                   \o JoinInputs(SetToSeq(Tr)) :
        S \in SUBSET Steps \ {{}},
        sep \in {" and Step ", " and/or Step ", " or Step "},
        Tr \in SUBSET (1..2)}

Prefix(s, n) == SubSeq(s, 1, n)

\* C12: under every interleaving of two invocations of parse_bpmn_to_sop,
\* the tables of the parser an invocation constructed stay those of its own
\* document, its step list is at every moment the list it builds when run
\* alone, and the context it returns carries the steps it returns alone.
C12_CallsIsolated ==
    \A p \in DOMAIN calls.frames :
        LET frame == calls.frames[p]
            alone == RunAlone(frame.xml)
        IN /\ frame.pc # "start" => calls.heap[instance_of(p)] = ParseTables(frame.xml)
           /\ frame.pc = "rows" =>
                 /\ Len(frame.sop_rows) + Len(frame.todo) = Len(alone)
                 /\ frame.sop_rows = Prefix(alone, Len(frame.sop_rows))
           /\ frame.pc = "returned" => frame.steps = alone

\* C12 witness: the two invocations, on documents with different steps,
\* interleave; invocation 1 has returned while invocation 2 is in the middle
\* of its loop, having started before invocation 1 finished.
C12_ReturnedDuringOtherLoop ==
    /\ DOMAIN calls.frames = Callers
    /\ calls.frames[1].pc = "returned"
    /\ calls.frames[2].pc = "rows"
    /\ Len(calls.frames[2].sop_rows) = 1
    /\ RunAlone(calls.frames[1].xml) # RunAlone(calls.frames[2].xml)

(***************************************************************************)
(* A subprocess behind a task.                                             *)
(***************************************************************************)
\* the only outgoing flow of the task leads to the subprocess sp
SoleSubprocessSuccessor(t, sp) ==
    /\ Len(tasks[t].outgoing) = 1
    /\ sp \in DOMAIN subprocesses
    /\ flows[tasks[t].outgoing[1]].target = sp

\* the numbered tasks the subprocess has a flow to
ContinuationTasks(sp) ==
    {flows[f].target : f \in {g \in Range(subprocesses[sp].outgoing) :
                                  flows[g].target \in NumberedTasks}}

\* the target of the first outgoing flow of the subprocess that leads to a
\* numbered task, a gateway, a subprocess, an end or an intermediate event
FirstContinuation(sp) ==
    LET resolved == Filter(subprocesses[sp].outgoing,
                           LAMBDA f : \/ flows[f].target \in NumberedTasks
                                      \/ flows[f].target \in DOMAIN gateways
                                      \/ flows[f].target \in DOMAIN subprocesses
                                      \/ /\ flows[f].target \in DOMAIN events
                                         /\ events[flows[f].target].type # "start")
    IN IF resolved = <<>> THEN "" ELSE flows[resolved[1]].target

\* the named intermediate events that have a flow into the subprocess
EventsBefore(sp) ==
    {flows[f].source : f \in {g \in Range(subprocesses[sp].incoming) :
                                  /\ flows[g].source \in DOMAIN events
                                  /\ events[flows[g].source].type = "intermediate"
                                  /\ events[flows[g].source].name # ""}}

StartOf(sp) ==
    "Start " \o subprocesses[sp].name
             \o (IF EndsWithProcess(subprocesses[sp].name) THEN "" ELSE " Process")

\* the sentences that begin with 'start' and name a continuation
SentencesFrom(start) ==
    {start}
    \cup {start \o ", then Process Ends (" \o e \o ")" : e \in EndNames}
    \cup {start \o " Then " \o verb \o " to Step " \o ToString(n) :
              verb \in {"Revert", "Proceed"}, n \in 1..MaxStep}

BoldTexts(row, Texts) ==
    {k \in DOMAIN row.paragraphs : row.paragraphs[k].bold /\ row.paragraphs[k].text \in Texts}

\* C13 (as claimed): no row stands for a subprocess; a task whose sole
\* successor is a subprocess carries exactly one bold sentence beginning
\* 'Start <Name> Process', and for every numbered task N the subprocess
\* continues to the sentence says 'Revert to Step N' iff N <= the task's step
\* and 'Proceed to Step N' iff N > the task's step.
C13_StartSentenceAppended ==
    Done =>
        /\ Len(TaskRows) = Cardinality(NumberedTasks)
        /\ \A t \in NumberedTasks, sp \in DOMAIN subprocesses :
              SoleSubprocessSuccessor(t, sp) =>
                LET row == RowOf(t)
                    hits == BoldTexts(row, SentencesFrom(StartOf(sp)))
                IN /\ Cardinality(hits) = 1
                   /\ \A k \in hits, u \in ContinuationTasks(sp) :
                         LET n == tasks[u].number
                             to == " to Step " \o ToString(n)
                         IN /\ row.paragraphs[k].text = StartOf(sp) \o " Then Revert" \o to
                                  <=> n <= tasks[t].number
                            /\ row.paragraphs[k].text = StartOf(sp) \o " Then Proceed" \o to
                                  <=> n > tasks[t].number

\* C13 (amended): no row stands for a subprocess; a task whose sole
\* successor is a subprocess carries exactly one bold sentence naming the
\* subprocess, appended last to its own row, with no case rows: it begins
\* 'Start <Name> Process', or 'Wait for <Event> and Then Start <Name>
\* Process' when a named intermediate event also flows into the subprocess;
\* it continues with 'Then Revert to Step N' / 'Then Proceed to Step N'
\* (revert iff N <= the task's step) when the first continuation of the
\* subprocess is the numbered task N, with ', then Process Ends (<name>)'
\* when it is an end event, and with nothing otherwise.
C13_StartOrWaitSentenceAppended ==
    Done =>
        /\ Len(TaskRows) = Cardinality(NumberedTasks)
        /\ \A t \in NumberedTasks, sp \in DOMAIN subprocesses :
              SoleSubprocessSuccessor(t, sp) =>
                LET row == RowOf(t)
                    first == FirstContinuation(sp)
                    start == IF EventsBefore(sp) = {} THEN StartOf(sp)
                             ELSE "Wait for Reply and Then " \o StartOf(sp)
                    all == SentencesFrom(StartOf(sp))
                             \cup SentencesFrom("Wait for Reply and Then " \o StartOf(sp))
                IN /\ BoldTexts(row, all) = {Len(row.paragraphs)}
                   /\ \A i \in TaskRowIndices(t) : CaseRowsAfter(i) = <<>>
                   /\ LastText(row) =
                         IF first \in NumberedTasks
                         THEN start \o " Then "
                              \o (IF tasks[first].number <= tasks[t].number
                                  THEN "Revert" ELSE "Proceed")
                              \o " to Step " \o ToString(tasks[first].number)
                         ELSE IF first \in EndEvents
                         THEN start \o ", then Process Ends (" \o EndNameOf(first) \o ")"
                         ELSE start

\* C13 witness: task 2 leads to the subprocess only, the intermediate event
\* flows into the subprocess too, and the subprocess leads back to task 2.
C13_WaitThenStartThenRevert ==
    /\ Done
    /\ SoleSubprocessSuccessor("T2", "P")
    /\ EventsBefore("P") # {}
    /\ FirstContinuation("P") = "T2"
    /\ LastText(RowOf("T2")) = "Wait for Reply and Then Start Billing Process Then Revert to Step 2"

(***************************************************************************)
(* A gateway that joins and splits.                                        *)
(***************************************************************************)
\* the only outgoing flow of the task leads to the gateway g
SoleGatewaySuccessor(t, g) ==
    /\ Len(tasks[t].outgoing) = 1
    /\ g \in DOMAIN gateways
    /\ flows[tasks[t].outgoing[1]].target = g

\* the step numbers of the numbered tasks the gateway has a flow to
TaskTargetSteps(g) ==
    {tasks[flows[f].target].number :
        f \in {h \in Range(gateways[g].outgoing) : flows[h].target \in NumberedTasks}}

IsJoinThenSplit(g) ==
    /\ g \in DOMAIN gateways
    /\ Len(gateways[g].incoming) > 1
    /\ Len(gateways[g].outgoing) > 1

ProceedToAll(g) ==
    "Proceed to Step "
    \o Join(SetToSeq(TaskTargetSteps(g)),
            IF gateways[g].type = "OR" THEN " and/or Step " ELSE " and Step ")

\* C14: a task whose sole successor is an AND/OR gateway with several
\* incoming and several outgoing flows, at least two of them to numbered
\* tasks, ends with 'Proceed to Step A and Step B' ('and/or' for OR), as it
\* does behind a gateway with a single incoming flow.
C14_JoinThenSplitProceeds ==
    Done =>
        \A t \in NumberedTasks, g \in DOMAIN gateways :
            /\ SoleGatewaySuccessor(t, g)
            /\ gateways[g].type \in {"AND", "OR"}
            /\ IsJoinThenSplit(g)
            /\ Cardinality(TaskTargetSteps(g)) >= 2
            => LastText(RowOf(t)) = ProceedToAll(g)

\* C14 witness: tasks 1 and 2 lead to gateway A, which leads on to tasks 2
\* and 3, and the row of task 1 ends with its description.
C14_JoinThenSplitWithoutSentence ==
    /\ Done
    /\ SoleGatewaySuccessor("T1", "A")
    /\ IsJoinThenSplit("A")
    /\ TaskTargetSteps("A") = {2, 3}
    /\ Len(RowOf("T1").paragraphs) = 3

(***************************************************************************)
(* The shape of a gateway-case row.                                        *)
(***************************************************************************)
\* the labels a case can carry: the name of a flow, or the placeholder of
\* an unlabeled flow
CaseLabels ==
    ({flows[f].name : f \in DOMAIN flows} \ {""})
    \cup {"[CONDITION UNLABELED]", "Complete", "Proceed"}

FlowDocumentations == {flows[f].documentation : f \in DOMAIN flows} \ {""}

\* the RACI of the lane of task t
LaneRaciOf(t) ==
    IF tasks[t].lane_id \in DOMAIN lane_raci THEN lane_raci[tasks[t].lane_id] ELSE NoRaci

IsBlank(para) == para.text = "" /\ ~para.bold

\* C15: every gateway-case row has is_gateway = true, the ref of the task
\* row before it followed by its letter (A for the first case row behind
\* the task row, B for the second, ...), the RACI of that task, no SLA and
\* no SLA group, and five paragraphs: bold 'Case <Letter>: <label>', blank,
\* the explanation (a flow documentation or the bracketed placeholder
\* naming the label), blank, a bold routing sentence.
C15_CaseRowShape ==
    Done =>
        \A j \in DOMAIN sop_rows :
            LET row == sop_rows[j]
                before == {i \in 1..(j - 1) : ~sop_rows[i].is_gateway}
            IN IF row.ref \in {ToString(n) : n \in 0..MaxStep}
               THEN ~row.is_gateway
               ELSE /\ row.is_gateway
                    /\ before # {}
                    /\ \E i \in before, t \in NumberedTasks, L \in CaseLabels :
                          /\ \A h \in before : h <= i
                          /\ i \in TaskRowIndices(t)
                          /\ row.ref = ToString(tasks[t].number) \o Letters[j - i]
                          /\ row.raci = LaneRaciOf(t)
                          /\ row.raci = sop_rows[i].raci
                          /\ row.sla = "" /\ row.sla_group = ""
                          /\ Len(row.paragraphs) = 5
                          /\ row.paragraphs[1].bold
                          /\ row.paragraphs[1].text = "Case " \o Letters[j - i] \o ": " \o L
                          /\ IsBlank(row.paragraphs[2])
                          /\ ~row.paragraphs[3].bold
                          /\ row.paragraphs[3].text \in
                                FlowDocumentations \cup {"[Condition explanation for " \o L \o "]"}
                          /\ IsBlank(row.paragraphs[4])
                          /\ row.paragraphs[5].bold
                          /\ row.paragraphs[5].text # ""

\* C15 witness: task 2 is followed by two case rows, 2A for an unlabeled
\* flow and 2B for a labeled and documented one.
C15_LabeledAndUnlabeledCases ==
    /\ Done
    /\ \E i \in TaskRowIndices("T2") :
          /\ Len(CaseRowsAfter(i)) = 2
          /\ sop_rows[i + 1].ref = "2A"
          /\ sop_rows[i + 1].paragraphs[1].text = "Case A: Complete"
          /\ sop_rows[i + 2].ref = "2B"
          /\ sop_rows[i + 2].paragraphs[1].text = "Case B: No"
          /\ sop_rows[i + 2].paragraphs[3].text = "rejected"

(***************************************************************************)
(* The revert threshold of the case rows.                                  *)
(***************************************************************************)
\* the routing sentences '<verb> to Step k', '<verb> to Step k and Step m ..'
\* and 'Wait until Reply Then <verb> to Step k ..' whose lowest step is k
StepSentences(verb, k) ==
    {prefix \o verb \o " to Step " \o Join(SetToSeq(S \cup {k}), connector) :
        prefix \in {"", "Wait until Reply Then "},
        connector \in {" and Step ", " and/or Step "},
        S \in SUBSET ((k + 1)..MaxStep)}

\* C16: on every resolution path (direct, through a nested gateway, through
\* a nested AND/OR fan-out judged on its lowest target, through an
\* intermediate event) a case whose destination is step k is a revert iff
\* k <= parent step: no case row proceeds to the parent step or to an
\* earlier one, and no case row reverts to a later one.
C16_SameThresholdOnEveryPath ==
    Done =>
        \A run \in CaseRuns : \A a \in DOMAIN run.rows, k \in 1..MaxStep :
            /\ LastText(run.rows[a]) \in StepSentences("Proceed", k) => k > run.step
            /\ LastText(run.rows[a]) \in StepSentences("Revert", k) => k <= run.step

\* C16 witness: the exclusive gateway behind task 2 leads to a second
\* gateway that leads back to task 2, and the case row reads 'Proceed to
\* Step 2'.
C16_NestedSelfLoopProceeds ==
    /\ Done
    /\ \E run \in CaseRuns :
          /\ run.step = 2
          /\ \E f \in Range(gateways[run.gateway].outgoing) :
                /\ flows[f].target \in DOMAIN gateways
                /\ \E h \in Range(gateways[flows[f].target].outgoing) : flows[h].target = "T2"
          /\ \E a \in DOMAIN run.rows : LastText(run.rows[a]) = "Proceed to Step 2"

(***************************************************************************)
(* The Step Input of a task behind an AND/OR join.                         *)
(***************************************************************************)
\* the step numbers collected from the tasks that feed the AND/OR gateways
\* directly in front of the task, gateways in between traced through
CollectedSteps(t) ==
    {tasks[e].number :
        e \in {u \in BackwardClosure({flows[f].source : f \in JoinPredecessorFlows(t)},
                                     DOMAIN gateways) : IsNumberedTask(u)}}

\* the titles '<label> Step Input: Step a and Step b ..' ('and/or') that
\* list the steps of a subset of Steps with at least n elements, ascending
StepListTitles(t, Steps, n) ==
    {tasks[t].label \o " Step Input: Step " \o Join(SetToSeq(S), sep) :
        S \in {R \in SUBSET Steps : Cardinality(R) >= n},
        sep \in {" and Step ", " and/or Step "}}

\* C17: behind an AND/OR join gateway a title of the form 'Step Input: Step
\* X and Step Y ..' lists at least two different steps collected from the
\* tasks feeding the gateway, ascending, each once; a list of one step is
\* never emitted.
C17_JoinInputListsTwoSteps ==
    Done =>
        \A t \in NumberedTasks :
            /\ JoinPredecessorFlows(t) # {}
            /\ TitleOf(t) \in StepListTitles(t, 1..MaxStep, 1)
            => TitleOf(t) \in StepListTitles(t, CollectedSteps(t), 2)

\* C17 witness: task 1 feeds the join gateway in front of task 3 twice,
\* directly and through the exclusive gateway, no two tasks share a step
\* number, and the title of task 3 lists the single step 1.
C17_SingleStepListed ==
    /\ Done
    /\ "D" \notin DOMAIN tasks
    /\ JoinPredecessorFlows("T3") # {}
    /\ CollectedSteps("T3") = {1}
    /\ TitleOf("T3") = "Check T3 Step Input: Step 1"

(***************************************************************************)
(* The step and trigger form of the Step Input.                            *)
(***************************************************************************)
\* the start events that reach task t without passing another task
ReachingStartEvents(t) ==
    {e \in InputsOf(t) : e \in DOMAIN events /\ events[e].type = "start"}

\* the steps before task t that reach it without passing another task
ForwardSteps(t) ==
    {tasks[e].number :
        e \in {u \in InputsOf(t) : IsNumberedTask(u) /\ tasks[u].number < tasks[t].number}}

\* the titles '<label> Step Input: Step a or Step b .. or Input k ..' over
\* the step sets of the set StepSets
StepOrInputTitles(t, StepSets) ==
    {tasks[t].label \o " Step Input: Step " \o Join(SetToSeq(S), " or Step ")
                   \o JoinInputs(SetToSeq(Tr)) :
        S \in StepSets, Tr \in SUBSET (1..2) \ {{}}}

\* C18: a title of the form 'Step Input: Step A or Input B' appears only on
\* a task that is reached, without passing another task, both by a start
\* event and by a step with a strictly smaller number, and it lists exactly
\* those smaller steps: a flow from an equal or later step adds no step.
C18_StepOrInputNeedsBoth ==
    Done =>
        \A t \in NumberedTasks :
            TitleOf(t) \in StepOrInputTitles(t, SUBSET (1..MaxStep) \ {{}})
            => /\ ReachingStartEvents(t) # {}
               /\ ForwardSteps(t) # {}
               /\ TitleOf(t) \in StepOrInputTitles(t, {ForwardSteps(t)})

\* C18 witness: task 3 is reached by start event S1, by step 1 through the
\* exclusive gateway and by the later step 4; its title names step 1 only.
C18_LaterStepNotListed ==
    /\ Done
    /\ T(MaxStep) \in SourcesOf("T3")
    /\ MaxStep > 3
    /\ TitleOf("T3") = "Check T3 Step Input: Step 1 or Input 1"

(***************************************************************************)
(* Case rows behind an exclusive gateway that does not split.              *)
(***************************************************************************)
\* C19: case rows follow the row of a task only when the task's sole
\* successor is an exclusive gateway with more than one outgoing flow; a
\* task followed by an exclusive gateway with a single outgoing flow has
\* no case rows.
C19_CaseRowsOnlyBehindSplit ==
    Done =>
        \A t \in NumberedTasks : \A i \in TaskRowIndices(t) :
            CaseRowsAfter(i) # <<>> =>
                \E g \in DOMAIN gateways :
                    /\ SoleXorSuccessor(t, g)
                    /\ Len(gateways[g].outgoing) > 1

\* C19 witness: tasks 1 and 2 both lead to the exclusive gateway, whose
\* only outgoing flow leads to task 3, and the row of task 1 is followed by
\* a case row.
C19_MergeGatewayCaseRow ==
    /\ Done
    /\ SoleXorSuccessor("T1", "X")
    /\ Len(gateways["X"].incoming) = 2
    /\ Len(gateways["X"].outgoing) = 1
    /\ \E i \in TaskRowIndices("T1") :
          /\ Len(CaseRowsAfter(i)) = 1
          /\ sop_rows[i + 1].ref = "1A"
          /\ LastText(sop_rows[i + 1]) = "Proceed to Step 3"

(***************************************************************************)
(* The chain sentence of a task that leads to an intermediate event.       *)
(***************************************************************************)
\* the only outgoing flow of the task leads to the intermediate event e
SoleEventSuccessor(t, e) ==
    /\ Len(tasks[t].outgoing) = 1
    /\ e \in DOMAIN events
    /\ events[e].type = "intermediate"
    /\ flows[tasks[t].outgoing[1]].target = e

\* the composite sentences 'Wait for <event> ...' for the event "Reply"
ChainSentences ==
    LET wait == "Wait for Reply"
        to_steps == {verb \o " to Step " \o Join(SetToSeq(S), connector) :
                        verb \in {"Revert", "Proceed"},
                        connector \in {" and Step ", " and/or Step "},
                        S \in SUBSET (1..MaxStep) \ {{}}}
        ends == {", then Process Ends (" \o e \o ")" : e \in EndNames}
        start == " and Then Start Billing Process"
    IN {wait}
       \cup {wait \o e : e \in ends}
       \cup {wait \o " and Then " \o s : s \in to_steps}
       \cup {wait \o start}
       \cup {wait \o start \o e : e \in ends}
       \cup {wait \o start \o " Then " \o s : s \in to_steps}

\* C20: a row carries a 'Wait for <event> ...' chain sentence only when the
\* sole successor of its task is an intermediate event, and then the chain
\* sentence is the only routing of the row: it is the last paragraph, right
\* behind the description, and no case rows follow the row.
C20_ChainSentenceIsOnlyRouting ==
    Done =>
        \A t \in NumberedTasks : \A i \in TaskRowIndices(t) :
            \A k \in DOMAIN sop_rows[i].paragraphs :
                sop_rows[i].paragraphs[k].text \in ChainSentences =>
                    /\ \E e \in DOMAIN events : SoleEventSuccessor(t, e)
                    /\ k = 5
                    /\ Len(sop_rows[i].paragraphs) = 5
                    /\ CaseRowsAfter(i) = <<>>

\* C20 witness: task 2 leads to the intermediate event and to the join
\* gateway that task 1 leads to as well; its row carries the chain sentence
\* and, behind it, the wait for the other branch.
C20_ChainThenJoinWait ==
    /\ Done
    /\ Len(tasks["T2"].outgoing) = 2
    /\ Len(RowOf("T2").paragraphs) = 7
    /\ RowOf("T2").paragraphs[5].text = "Wait for Reply"
    /\ LastText(RowOf("T2")) = "Wait until step 1 completed then Process Ends (Done)"

(***************************************************************************)
(* The order of the paragraphs of a task row.                              *)
(***************************************************************************)
\* the paragraphs an extra documentation line of task t can become
ExtraDocTexts(t) ==
    UNION {{tasks[t].documentation[k], tasks[t].documentation[k] \o "."} :
              k \in DOMAIN tasks[t].documentation \ {1}}

\* the sentences a boundary event can add
BoundarySentences ==
    LET conditions == {"performing the activity took more than 30 min",
                       "Complaint during performing the activity",
                       "Escalation during performing the activity"}
        steps == {ToString(k) : k \in 1..MaxStep}
        thens == {""} \cup {", then proceed to step " \o k : k \in steps}
                     \cup {", then Process Ends (" \o e \o ")" : e \in EndNames}
    IN {"If " \o c \o ", stop the activity and proceed to step " \o k :
           c \in conditions, k \in steps}
       \cup {"If " \o c \o ", proceed to step " \o k \o " and complete the activity" \o th :
                c \in conditions, k \in steps, th \in thens}

\* the paragraphs of a row behind the description, the blank ones left out
AfterDescription(row) ==
    Filter(SubSeq(row.paragraphs, 4, Len(row.paragraphs)), LAMBDA para : para.text # "")

RevertSentences == {"Revert to Step " \o ToString(k) : k \in 1..MaxStep}

\* 1 extra documentation, 2 chain sentence, 3 boundary sentence, 4 revert
\* sentence, 5 trailing routing sentence
\* (Chains and Boundaries: the chain and the boundary sentences)
ParagraphRank(t, para, Chains, Boundaries) ==
    IF ~para.bold /\ para.text \in ExtraDocTexts(t) THEN 1
    ELSE IF para.text \in Chains THEN 2
    ELSE IF para.text \in Boundaries THEN 3
    ELSE IF para.text \in RevertSentences THEN 4
    ELSE 5

\* the ranks of the paragraphs of the row of task t behind the description
RanksOf(t, row) ==
    LET rest == AfterDescription(row)
    IN IF rest = <<>> THEN <<>>
       ELSE LET Chains == ChainSentences
                Boundaries == BoundarySentences
            IN [k \in DOMAIN rest |-> ParagraphRank(t, rest[k], Chains, Boundaries)]

\* some flow of task t leads to a task with a smaller step number
HasEarlierSuccessor(t) ==
    \E f \in Range(tasks[t].outgoing) :
        /\ f \in DOMAIN flows
        /\ flows[f].target \in NumberedTasks
        /\ tasks[flows[f].target].number < tasks[t].number

\* C21: a task row starts with title, blank, description; behind them come
\* the extra documentation paragraphs, the chain sentence, the boundary
\* sentences, the bold 'Revert to Step R' and the trailing routing sentence,
\* in this order, and 'Revert to Step R' is there iff some direct successor
\* task has a strictly smaller step number.
C21_ParagraphOrder ==
    Done =>
        \A t \in NumberedTasks : \A i \in TaskRowIndices(t) :
            LET row == sop_rows[i]
                rest == AfterDescription(row)
                rank == RanksOf(t, row)
            IN /\ Len(row.paragraphs) >= 3
               /\ row.paragraphs[1].bold /\ row.paragraphs[1].text # ""
               /\ row.paragraphs[2] = Blank
               /\ ~row.paragraphs[3].bold /\ row.paragraphs[3].text # ""
               /\ \A j, k \in DOMAIN rank :
                     j < k => /\ rank[j] <= rank[k]
                              /\ rank[j] = rank[k] => rank[j] \in {1, 3}
               /\ (\E k \in DOMAIN rest : /\ rest[k].text \in RevertSentences
                                            /\ rest[k].bold)
                    <=> HasEarlierSuccessor(t)

\* C21 witness: the row of task 2 carries an extra documentation paragraph,
\* the chain sentence, a boundary sentence and 'Revert to Step 1', while
\* task 2 also leads to the later task 3.
C21_DocChainBoundaryRevert ==
    /\ Done
    /\ \E f \in Range(tasks["T2"].outgoing) : flows[f].target = "T3"
    /\ RanksOf("T2", RowOf("T2")) = <<1, 2, 3, 4>>
    /\ LastText(RowOf("T2")) = "Revert to Step 1"

(***************************************************************************)
(* The sentences of the boundary events.                                   *)
(***************************************************************************)
AttachedTo(t) == IF t \in DOMAIN boundary_events THEN boundary_events[t] ELSE <<>>

\* the paragraphs of a row in the format of a boundary sentence
BoundaryParagraphs(row) ==
    Filter(row.paragraphs, LAMBDA para : para.bold /\ para.font_size = 11 /\ para.text # "")

\* "task", "gateway" or "end" for a numbered task, a gateway or an end event
KindOf(e) ==
    IF e \in NumberedTasks THEN "task"
    ELSE IF e \in DOMAIN gateways THEN "gateway"
    ELSE IF e \in DOMAIN events /\ events[e].type = "end" THEN "end"
    ELSE "other"

\* the element behind the first flow of element e that leads to an element
\* of one of the kinds, "" when there is none
FirstOfKinds(e, Kinds) ==
    LET hits == Filter(OutgoingFlowIds(e),
                       LAMBDA f : f \in DOMAIN flows /\ KindOf(flows[f].target) \in Kinds)
    IN IF hits = <<>> THEN "" ELSE flows[hits[1]].target

\* the normal successor of task t, through at most one gateway
NormalSuccessor(t) ==
    LET first == FirstOfKinds(t, {"task", "gateway", "end"})
    IN IF first # "" /\ KindOf(first) = "gateway"
       THEN FirstOfKinds(first, {"task", "end"})
       ELSE first

\* ', then proceed to step U' / ', then Process Ends (<name>)'
ThenText(t) ==
    LET u == NormalSuccessor(t)
    IN IF u = "" THEN ""
       ELSE IF KindOf(u) = "task" THEN ", then proceed to step " \o ToString(tasks[u].number)
       ELSE ", then Process Ends ("
            \o (IF events[u].name # "" THEN events[u].name ELSE "Process Complete") \o ")"

\* the task the first outgoing flow of boundary event b leads to, "" when
\* it leads to no numbered task
BoundaryTask(b) ==
    IF b.outgoing # <<>> /\ b.outgoing[1] \in DOMAIN flows
       /\ flows[b.outgoing[1]].target \in NumberedTasks
    THEN flows[b.outgoing[1]].target ELSE ""

ConditionOf(b) ==
    IF b.event_type = "timer" THEN "performing the activity took more than " \o b.name
    ELSE b.name \o " during performing the activity"

\* the sentence of boundary event b of task t, with or without the
\* continuation of a non-interrupting event
BoundarySentence(t, b, then) ==
    IF b.interrupting
    THEN "If " \o ConditionOf(b) \o ", stop the activity and proceed to step "
         \o ToString(tasks[BoundaryTask(b)].number)
    ELSE "If " \o ConditionOf(b) \o ", proceed to step "
         \o ToString(tasks[BoundaryTask(b)].number) \o " and complete the activity" \o then

\* C22 (as claimed): every boundary event attached to a numbered task adds
\* exactly one sentence to the row of the task, 'If <condition>, stop the
\* activity and proceed to step T' or 'If <condition>, proceed to step T and
\* complete the activity, then proceed to step U' / '..., then Process Ends
\* (<name>)'.
C22_OneSentencePerBoundaryEvent ==
    Done =>
        \A t \in NumberedTasks : \A i \in TaskRowIndices(t) :
            LET said == BoundaryParagraphs(sop_rows[i])
                attached == AttachedTo(t)
            IN /\ Len(said) = Len(attached)
               /\ \A k \in DOMAIN attached :
                     /\ BoundaryTask(attached[k]) # ""
                     /\ attached[k].interrupting \/ ThenText(t) # ""
                     /\ said[k].text = BoundarySentence(t, attached[k], ThenText(t))

\* C22 (amended): every named boundary event whose first outgoing flow leads
\* to a numbered task T adds exactly one sentence, in document order; the
\* sentence of a non-interrupting event ends with 'then proceed to step U',
\* with 'then Process Ends (<name>)', or with 'complete the activity' when
\* the normal path reaches neither; the other boundary events add none.
C22_OneSentencePerStatedBoundaryEvent ==
    Done =>
        \A t \in NumberedTasks : \A i \in TaskRowIndices(t) :
            LET said == BoundaryParagraphs(sop_rows[i])
                stated == Filter(AttachedTo(t),
                                 LAMBDA b : b.name # "" /\ BoundaryTask(b) # "")
            IN /\ Len(said) = Len(stated)
               /\ \A k \in DOMAIN stated :
                     said[k].text = BoundarySentence(t, stated[k], ThenText(t))

\* C22 witness: task 2 leads to the exclusive gateway that leads to task 3
\* and carries the non-interrupting message event that leads to task 1.
C22_NonInterruptingThroughGateway ==
    /\ Done
    /\ Len(AttachedTo("T2")) = 1
    /\ ~AttachedTo("T2")[1].interrupting
    /\ FirstOfKinds("T2", {"task", "gateway", "end"}) = "X"
    /\ BoundaryParagraphs(RowOf("T2")) =
          <<Para("If Complaint during performing the activity, proceed to step 1 and complete the activity, then proceed to step 3", 11, TRUE)>>

(***************************************************************************)
(* The titles of the cases of unnamed flows.                               *)
(***************************************************************************)
\* 'Revert to Step ...' / 'Proceed to Step ...' for one or several steps
StepRoutings(to) ==
    {verb \o to \o " Step " \o Join(SetToSeq(S), connector) :
        verb \in {"Revert", "Proceed"},
        connector \in {" and Step ", " and/or Step "},
        S \in SUBSET (1..MaxStep) \ {{}}}

\* the routing sentences of the cases that end the process
EndCaseRoutings ==
    {p \o "Process Ends (" \o n \o ")" : p \in {"", "Wait until Reply, then "}, n \in EndNames}

\* the routing sentences of the cases that start the subprocess
SubprocessCaseRoutings ==
    LET starts == {"Start Billing Process", "Wait until Reply Then Start Billing Process"}
        thens == {""} \cup {", then " \o r : r \in StepRoutings(" to")}
                     \cup {", then Process Ends (" \o n \o ")" : n \in EndNames}
    IN {st \o th : st \in starts, th \in thens}

\* the names of the outgoing flows of gateway g
FlowNames(g) ==
    {flows[f].name : f \in {f \in Range(gateways[g].outgoing) : f \in DOMAIN flows}} \ {""}

CaseTitles(k, Labels) == {"Case " \o Letters[k] \o ": " \o L : L \in Labels}

\* C23 (as claimed): the title of a case carries the name of a flow of the
\* gateway or, for an unnamed flow, a bracketed placeholder, whatever the
\* destination of the case.
C23_UnnamedCaseBracketed ==
    Done =>
        \A run \in CaseRuns : \A k \in DOMAIN run.rows :
            run.rows[k].paragraphs[1].text
                \in CaseTitles(k, FlowNames(run.gateway) \cup {"[CONDITION UNLABELED]"})

\* C23 (amended): the title of a case carries the name of a flow of the
\* gateway or, for an unnamed flow, the placeholder of its destination:
\* 'Complete' when the case ends the process, 'Proceed' when it starts a
\* subprocess, '[CONDITION UNLABELED]' otherwise.
C23_UnnamedCasePlaceholder ==
    Done =>
        \A run \in CaseRuns :
            LET Ends == EndCaseRoutings
                Starts == SubprocessCaseRoutings
                Names == FlowNames(run.gateway)
            IN \A k \in DOMAIN run.rows :
                  run.rows[k].paragraphs[1].text
                      \in CaseTitles(k, Names \cup
                             {IF LastText(run.rows[k]) \in Ends THEN "Complete"
                              ELSE IF LastText(run.rows[k]) \in Starts THEN "Proceed"
                              ELSE "[CONDITION UNLABELED]"})

\* C23 witness: none of the flows of the gateway has a name; they lead to
\* an end event, through the intermediate event to a task and to the
\* subprocess, and the three cases are titled by their placeholders.
C23_ThreeUnnamedCases ==
    /\ Done
    /\ FlowNames("X") = {}
    /\ \E run \in CaseRuns :
          /\ run.gateway = "X"
          /\ [k \in DOMAIN run.rows |-> run.rows[k].paragraphs[1].text]
                = <<"Case A: Complete", "Case B: [CONDITION UNLABELED]", "Case C: Proceed">>
          /\ LastText(run.rows[2]) = "Wait until Reply Then Proceed to Step 3"

(***************************************************************************)
(* The explanation paragraph of a case.                                    *)
(***************************************************************************)
\* the flows of gateway g lead to numbered tasks and end events only, no
\* two of them to the same element
HasDirectCasesOnly(g) ==
    LET out == gateways[g].outgoing
    IN /\ \A k \in DOMAIN out :
             /\ out[k] \in DOMAIN flows
             /\ KindOf(flows[out[k]].target) \in {"task", "end"}
       /\ \A j, k \in DOMAIN out : j # k => flows[out[j]].target # flows[out[k]].target

\* the routing sentences of the case of a flow that leads to element e
DirectRoutings(e) ==
    IF KindOf(e) = "task"
    THEN {"Revert to Step " \o ToString(tasks[e].number),
          "Proceed to Step " \o ToString(tasks[e].number)}
    ELSE {"Process Ends (" \o (IF events[e].name # "" THEN events[e].name
                                ELSE "Process Complete") \o ")"}

\* C24 (as claimed): the explanation of a case is the documentation of the
\* flow of the case when that flow has one, and the bracketed placeholder
\* naming the flow when it has none, also for an unnamed flow and for flows
\* of the same name.
C24_ExplanationOfOwnFlow ==
    Done =>
        \A run \in CaseRuns :
            HasDirectCasesOnly(run.gateway) =>
                \A f \in Range(gateways[run.gateway].outgoing) : \A k \in DOMAIN run.rows :
                    LastText(run.rows[k]) \in DirectRoutings(flows[f].target) =>
                        IF flows[f].documentation # ""
                        THEN run.rows[k].paragraphs[3].text = flows[f].documentation
                        ELSE run.rows[k].paragraphs[3].text \in
                                {"[Condition explanation for " \o L \o "]" : L \in CaseLabels}

\* C24 witness: the unnamed flow to the end event is documented "closed",
\* the flows to task 3 and to the subprocess are both named "Yes" and
\* documented "approved" and "escalated"; the case of the end event shows
\* the placeholder and the case of task 3 shows "escalated".
C24_DocumentationOfOtherFlow ==
    /\ Done
    /\ \E run \in CaseRuns :
          /\ run.gateway = "X"
          /\ \E f \in Range(gateways["X"].outgoing) :
                 flows[f].target = "E1" /\ flows[f].name = "" /\ flows[f].documentation = "closed"
          /\ \E f \in Range(gateways["X"].outgoing) :
                 flows[f].target = "T3" /\ flows[f].name = "Yes"
                 /\ flows[f].documentation = "approved"
          /\ Len(run.rows) = 3
          /\ LastText(run.rows[1]) = "Process Ends (Done)"
          /\ run.rows[1].paragraphs[3].text = "[Condition explanation for Complete]"
          /\ LastText(run.rows[2]) = "Proceed to Step 3"
          /\ run.rows[2].paragraphs[3].text = "escalated"

(***************************************************************************)
(* The place of the cases that start a subprocess.                         *)
(***************************************************************************)
\* the routing sentences of the cases that proceed to one or several tasks
ProceedRoutings ==
    {"Proceed to Step " \o Join(SetToSeq(S), connector) :
        connector \in {" and Step ", " and/or Step "}, S \in SUBSET (1..MaxStep) \ {{}}}

\* the subprocess is followed by a revert or by the end of the process
SubprocessThenBackOrEnd ==
    {"Start Billing Process, then Revert to Step " \o ToString(k) : k \in 1..MaxStep}
    \cup {"Start Billing Process, then Process Ends (" \o n \o ")" : n \in EndNames}

\* the subprocess is followed by a proceed or by nothing
SubprocessThenOn ==
    {"Start Billing Process"}
    \cup {"Start Billing Process, then Proceed to Step " \o ToString(k) : k \in 1..MaxStep}

\* C25 (as claimed): a case that starts a subprocess stands behind every
\* case that proceeds to a task only when the subprocess is followed by a
\* proceed or by nothing; when it is followed by a revert or by an end
\* event, no case that proceeds to a task stands before it.
C25_SubprocessCaseByContinuation ==
    Done =>
        \A run \in CaseRuns :
            LET Proceeds == ProceedRoutings
            IN \A j, k \in DOMAIN run.rows :
                  j < k =>
                     /\ LastText(run.rows[k]) \in SubprocessThenBackOrEnd
                           => LastText(run.rows[j]) \notin Proceeds
                     /\ LastText(run.rows[j]) \in SubprocessThenOn
                           => LastText(run.rows[k]) \notin Proceeds

\* C25 witness: the gateway behind task 2 leads to task 3 and to the
\* subprocess, which leads back to task 2; the case of the subprocess
\* stands behind the case that proceeds to task 3.
C25_SubprocessRevertBehindProceed ==
    /\ Done
    /\ \E run \in CaseRuns :
          /\ run.step = 2
          /\ Len(run.rows) = 2
          /\ LastText(run.rows[1]) = "Proceed to Step 3"
          /\ LastText(run.rows[2]) = "Start Billing Process, then Revert to Step 2"

(***************************************************************************)
(* The input numbers of the start events.                                  *)
(***************************************************************************)
StartEvents == {e \in DOMAIN events : events[e].type = "start"}

ParseIndex(e) == CHOOSE k \in DOMAIN EventOrder : EventOrder[k] = e

RECURSIVE ForwardClosure(_)
\* the gateways and events reached from the elements S through gateways
\* and events only
ForwardClosure(S) ==
    LET more == {flows[f].target :
                    f \in {f \in UNION {Range(OutgoingFlowIds(x)) : x \in S} : f \in DOMAIN flows}}
                \cap (DOMAIN gateways \cup DOMAIN events)
    IN IF more \subseteq S THEN S ELSE ForwardClosure(S \cup more)

\* the numbered tasks that start event e reaches through gateways and events
ReachedTasks(e) ==
    {t \in NumberedTasks :
        \E x \in ForwardClosure({e}) : \E f \in Range(OutgoingFlowIds(x)) :
            f \in DOMAIN flows /\ flows[f].target = t}

\* the step of the first task start event e reaches, NoNumber for none
FirstStep(e) == find_first_task_from_element(e, {}).result

\* C26 (as claimed): the K start events get the numbers 1..K, each once; a start event
\* whose first task has a lower step gets a lower number, start events with
\* the same first step keep their parse order, and the start events that
\* reach no numbered task come last.  The first task is a numbered task
\* reached through gateways and events only, and there is none only when no
\* such task is reached.
C26_StartEventsNumberedByFirstStep ==
    LET numbers == get_start_event_numbers
    IN /\ DOMAIN numbers = StartEvents
       /\ {numbers[e] : e \in StartEvents} = 1..Cardinality(StartEvents)
       /\ \A e \in StartEvents :
             IF ReachedTasks(e) = {} THEN FirstStep(e) = NoNumber
             ELSE FirstStep(e) \in {tasks[t].number : t \in ReachedTasks(e)}
       /\ \A d, e \in StartEvents :
             /\ (FirstStep(d) # NoNumber /\ FirstStep(e) # NoNumber
                    /\ FirstStep(d) < FirstStep(e)) => numbers[d] < numbers[e]
             /\ (FirstStep(d) = FirstStep(e) /\ ParseIndex(d) < ParseIndex(e))
                    => numbers[d] < numbers[e]
             /\ (FirstStep(d) # NoNumber /\ FirstStep(e) = NoNumber) => numbers[d] < numbers[e]

\* C26 witness: the rows are generated for a diagram whose first start event
\* reaches no task and whose second start event reaches the task numbered
\* FarStep; the first start event is Input 1.
C26_StartWithoutTaskNumberedFirst ==
    /\ Done
    /\ ReachedTasks("S1") = {}
    /\ FirstStep("S2") = FarStep
    /\ get_start_event_numbers["S1"] = 1
    /\ get_start_event_numbers["S2"] = 2

(***************************************************************************)
(* The SLA merge ranges and the task rows they cover.                      *)
(***************************************************************************)
\* the merge ranges that cover row i
RangesOver(i) ==
    {m \in DOMAIN sla_merges :
        sla_merges[m].merge_start <= i /\ i <= sla_merges[m].merge_end}

\* the task rows inside merge range m
TaskRowsIn(m) ==
    {i \in sla_merges[m].merge_start .. sla_merges[m].merge_end : ~sop_rows[i].is_gateway}

HasSla(i) == sop_rows[i].sla # "" \/ sop_rows[i].sla_group # ""

\* C27: after the SLA merge scan, every task row with an SLA value or an SLA
\* group lies in exactly one merge range; the task rows inside a range all
\* carry the SLA group of the row that starts the range, or the range was
\* started by a task with its own SLA and holds no other task row; and no
\* task row without SLA, nor any case row that directly follows such a task
\* row, lies in a merge range.
C27_SlaTaskRowsInOneRange ==
    Planned =>
        /\ \A i \in DOMAIN sop_rows :
              (~sop_rows[i].is_gateway /\ HasSla(i)) => Cardinality(RangesOver(i)) = 1
        /\ \A m \in DOMAIN sla_merges :
              LET first == sla_merges[m].merge_start
              IN /\ ~sop_rows[first].is_gateway
                 /\ HasSla(first)
                 /\ IF sop_rows[first].sla_group # ""
                    THEN \A i \in TaskRowsIn(m) :
                            sop_rows[i].sla_group = sop_rows[first].sla_group
                    ELSE TaskRowsIn(m) = {first}
        /\ \A i \in DOMAIN sop_rows :
              (~sop_rows[i].is_gateway /\ ~HasSla(i)) =>
                  \A k \in i .. LastCaseRowAfter(i) : RangesOver(k) = {}

\* C27: one range holds two task rows of the same SLA group and the case row
\* between them, and the task without SLA behind it, with its case row, is
\* outside every range
C27_GroupRangeThenTaskWithoutSla ==
    /\ Planned
    /\ \E m \in DOMAIN sla_merges :
          /\ Cardinality(TaskRowsIn(m)) = 2
          /\ sla_merges[m].merge_end - sla_merges[m].merge_start >= 2
          /\ sla_merges[m].merge_end + 2 <= Len(sop_rows)
          /\ ~HasSla(sla_merges[m].merge_end + 1)
          /\ ~sop_rows[sla_merges[m].merge_end + 1].is_gateway
          /\ sop_rows[sla_merges[m].merge_end + 2].is_gateway

(***************************************************************************)
(* The place of the case rows in the step list.                            *)
(***************************************************************************)
\* the index of the last task row before row i (0 when there is none)
TaskRowBefore(i) ==
    LET before == {j \in 1..(i - 1) : ~sop_rows[j].is_gateway}
    IN IF before = {} THEN 0 ELSE CHOOSE j \in before : \A k \in before : k <= j

\* ref is step followed by one case letter: step is the numeric prefix of ref
IsCaseRefOf(ref, step) == \E k \in DOMAIN Letters : ref = step \o Letters[k]

\* C28: in the list returned by generate_sop_rows the first row is not a
\* case row, and every case row is reached from a task row through case rows
\* only, that task row's ref being a step number and the numeric prefix of
\* the case row's ref.
C28_CaseRowsFollowTheirTask ==
    Done =>
        /\ sop_rows # <<>> => ~sop_rows[1].is_gateway
        /\ \A i \in DOMAIN sop_rows :
              sop_rows[i].is_gateway =>
                  /\ TaskRowBefore(i) # 0
                  /\ \E t \in NumberedTasks :
                        sop_rows[TaskRowBefore(i)].ref = ToString(tasks[t].number)
                  /\ IsCaseRefOf(sop_rows[i].ref, sop_rows[TaskRowBefore(i)].ref)

\* C28: two tasks of one list have each got case rows, the first two of them
C28_TwoCaseBlocks ==
    /\ Done
    /\ \E i, j \in DOMAIN sop_rows :
          /\ i + 2 < j
          /\ j < Len(sop_rows)
          /\ ~sop_rows[i].is_gateway
          /\ sop_rows[i + 1].is_gateway
          /\ sop_rows[i + 2].is_gateway
          /\ ~sop_rows[j].is_gateway
          /\ sop_rows[j + 1].is_gateway

(***************************************************************************)
(* The history of HistoryManager.                                          *)
(***************************************************************************)
StoredWithoutTimestamp(hist) == {without_timestamp(hist[i]) : i \in DOMAIN hist}

\* the stored entries that equal the entry e when the timestamps are ignored
SameAs(hist, e) ==
    {i \in DOMAIN hist : without_timestamp(hist[i]) = without_timestamp(e)}

\* a call of add_entry has been made in this step
Added == request'.number # request.number

\* C29: the history never holds more than 50 entries nor two entries that
\* are equal when the timestamps are ignored; and an add_entry call whose
\* metadata equal a stored entry leaves the number of entries as it is and
\* changes nothing but the timestamp of that one entry.
C29_HistoryBoundedAndDistinct ==
    /\ [](/\ Len(history) <= 50
          /\ Cardinality(StoredWithoutTimestamp(history)) = Len(history))
    /\ [][(Added /\ SameAs(history, entry') # {}) =>
             /\ Len(history') = Len(history)
             /\ \E i \in SameAs(history, entry') :
                   history' = [history EXCEPT ![i].timestamp = entry'.timestamp]]_vars

\* C29: the history is full, the latest call has put a new entry in front of
\* it and the oldest entry is gone, and an earlier call has matched a stored
\* entry and set its timestamp
C29_FullHistoryAfterMatchAndInsert ==
    /\ Len(history) = HistoryLimit
    /\ request.number >= 2
    /\ history[1] = entry
    /\ SameAs(history, Entry(MetadataOf(1), 0)) = {}
    /\ \E i \in 2..(HistoryLimit - 1) : history[i].timestamp < history[i + 1].timestamp

\* C30: the entry whose timestamp the latest add_entry call has set is the
\* first of the list that get_all returns, and the timestamps do not
\* increase along that list.
C30_MostRecentFirst ==
    request.number > 0 =>
        /\ without_timestamp(get_all(history)[1]) = without_timestamp(entry)
        /\ get_all(history)[1].timestamp = entry.timestamp
        /\ \A i \in 1..(Len(get_all(history)) - 1) :
              get_all(history)[i].timestamp >= get_all(history)[i + 1].timestamp

\* C30: the latest call matched the second entry of the list, which now
\* carries the latest timestamp behind an entry with an earlier one
C30_MatchedEntryStaysBehind ==
    /\ request.number > 0
    /\ Len(history) >= 2
    /\ without_timestamp(history[2]) = without_timestamp(entry)
    /\ history[2].timestamp = entry.timestamp
    /\ history[1].timestamp < history[2].timestamp

====
